---- MODULE Spec2Model ----
(***************************************************************************)
(* Model of the leave reconciliation pipeline of docs/app.js:              *)
(* extractDrmisData / extractOracleData (with expandOracleEntries),        *)
(* reconcileData and generateCatsEdits.                                    *)
(*                                                                         *)
(* Representation.                                                         *)
(*  - A JavaScript string is a sequence of one-character strings, so that  *)
(*    trim, replace(/\D+/g,''), startsWith, length and parseInt are        *)
(*    computed character by character.                                     *)
(*  - A JavaScript value (a spreadsheet cell, a field) is a record         *)
(*    [t, n, s]: t is "null", "num", "str", "nan" or "date".               *)
(*  - Hours are numbers counted in hundredths of an hour (4.25 h = 425).   *)
(*  - A normalized Date (local midnight) is its day number, day 0 being    *)
(*    2025-01-01; a native Date cell is a number of minutes of local time  *)
(*    counted from 2025-01-01 00:00.                                       *)
(***************************************************************************)
EXTENDS Integers, Sequences, FiniteSets, TLC

VARIABLES
  leaveCodeWhitelist, \* the loaded allow-list, {} when none is loaded
  drmisRows,          \* keyed records of the loaded DRMIS file, NoFile when none
  drmisHeaders,       \* the headers of the loaded DRMIS file
  oracleHeaders,      \* the headers of the loaded Oracle file
  mappingError,       \* the Error shown by the column-mapping dialog, <<>> when closed
  oracleRows,         \* keyed records of the loaded Oracle file, NoFile when none
  drmisExtracted,     \* result of extractDrmisData in the last run
  oracleOut,          \* extractOracleData's records before multi-day expansion
  oracleExtracted,    \* result of extractOracleData in the last run
  mergeMap,           \* reconcileData's map, in insertion order
  merged,             \* reconcileData's merged array (after code canonicalization)
  mismatches,         \* result of reconcileData
  catsEditsData,      \* result of generateCatsEdits
  pc,                 \* "idle" before a run, "done" after one, "mapping" while the
                      \* mapping dialog is open, "expanding" and "expanded" in the
                      \* step-by-step run of the expansion loop
  loopRow,            \* the record the expansion loop is run for
  loopRemaining,      \* the loop's variable remaining, a double
  loopDate,           \* the loop's variable currentDate, a day number
  loopExpanded,       \* the records the loop has pushed
  sheetGrid,          \* the rows of cells read from a sheet
  sheetTable,         \* the table sheetRowsToObjects detects in them
  drmisLookup,        \* the Map of DRMIS entries by date and Pers No
  catsTable,          \* the rows of the CATs edits table
  prefillCalls        \* the outcome of each call of prefillEditableRow

pipelineVars == <<leaveCodeWhitelist, drmisRows, drmisHeaders, oracleRows, oracleHeaders,
                  mappingError, drmisExtracted, oracleOut, oracleExtracted, mergeMap,
                  merged, mismatches, catsEditsData>>

loopVars == <<loopRow, loopRemaining, loopDate, loopExpanded>>

\* the variables the handlers of the reconciliation page leave alone
sheetVars == <<sheetGrid, sheetTable>>

tableVars == <<catsTable, prefillCalls>>

otherVars == <<loopVars, sheetVars, tableVars>>

vars == <<pipelineVars, drmisLookup, pc, otherVars>>

(* ------------------------- JavaScript values -------------------------- *)

Null == [t |-> "null", n |-> 0, s |-> <<>>]
NaN == [t |-> "nan", n |-> 0, s |-> <<>>]
Num(n) == [t |-> "num", n |-> n, s |-> <<>>]
Str(s) == [t |-> "str", n |-> 0, s |-> s]
DateVal(minutes) == [t |-> "date", n |-> minutes, s |-> <<>>]

DigitChars == <<"0", "1", "2", "3", "4", "5", "6", "7", "8", "9">>

IsDigit(c) == \E i \in 1..10 : DigitChars[i] = c

DigitVal(c) == (CHOOSE i \in 1..10 : DigitChars[i] = c) - 1

IsSpace(c) == c = " "

RECURSIVE trimStart(_)
trimStart(s) ==
  IF s # <<>> /\ IsSpace(Head(s)) THEN trimStart(Tail(s)) ELSE s

RECURSIVE trimEnd(_)
trimEnd(s) ==
  IF s # <<>> /\ IsSpace(s[Len(s)]) THEN trimEnd(SubSeq(s, 1, Len(s) - 1)) ELSE s

\* String.prototype.trim
trim(s) == trimEnd(trimStart(s))

\* s.replace(/\D+/g, '')
digitsOnly(s) == SelectSeq(s, IsDigit)

AllDigits(s) == s # <<>> /\ \A i \in 1..Len(s) : IsDigit(s[i])

RECURSIVE digitsValue(_)
digitsValue(s) ==
  IF s = <<>> THEN 0 ELSE 10 * digitsValue(SubSeq(s, 1, Len(s) - 1)) + DigitVal(s[Len(s)])

RECURSIVE leadingDigits(_)
leadingDigits(s) ==
  IF s # <<>> /\ IsDigit(Head(s)) THEN <<Head(s)>> \o leadingDigits(Tail(s)) ELSE <<>>

\* parseInt(string): the value of the leading run of digits, NaN when there is none
\* (leading white space is skipped; signs and radix prefixes are outside the inputs)
parseInt(s) ==
  LET run == leadingDigits(trimStart(s))
  IN IF run = <<>> THEN NaN ELSE Num(digitsValue(run))

RECURSIVE natToChars(_)
natToChars(n) ==
  IF n < 10 THEN <<DigitChars[n + 1]>> ELSE natToChars(n \div 10) \o <<DigitChars[(n % 10) + 1]>>

\* String(v) for the values of the model
ToStr(v) ==
  CASE v.t = "str" -> v.s
    [] v.t = "num" -> IF v.n < 0 THEN <<"-">> \o natToChars(-v.n) ELSE natToChars(v.n)
    [] v.t = "nan" -> <<"N", "a", "N">>
    [] OTHER -> <<"n", "u", "l", "l">>

\* Number(v): null and blank strings are 0, digit strings their value, other text NaN
ToNumber(v) ==
  CASE v.t = "num" -> v
    [] v.t = "null" -> Num(0)
    [] v.t = "str" -> IF trim(v.s) = <<>> THEN Num(0)
                      ELSE IF AllDigits(trim(v.s)) THEN Num(digitsValue(trim(v.s)))
                      ELSE NaN
    [] OTHER -> NaN

\* the truth value JavaScript gives v in a condition
Truthy(v) ==
  CASE v.t = "num" -> v.n # 0
    [] v.t = "str" -> v.s # <<>>
    [] v.t = "date" -> TRUE
    [] OTHER -> FALSE

\* Number(v) || 0, as a plain integer
NumberOrZero(v) == IF ToNumber(v).t = "num" THEN ToNumber(v).n ELSE 0

Min(a, b) == IF a <= b THEN a ELSE b

(* --------------------------- dates, calendar --------------------------- *)

\* serial number of 2025-01-01 in the 1900 date system whose day 0 is 1899-12-30
ExcelSerialOf2025 == 45658

\* Date.prototype.getTimezoneOffset() at local midnight of day d, in minutes. The
\* app is run in Canada (Eastern time here): 300 in winter, 240 from the second
\* Sunday of March to the first Sunday of November 2025.
TimezoneOffset(d) == IF d >= 68 /\ d <= 305 THEN 240 ELSE 300

\* date.toISOString().split('T')[0] of the Date at local midnight of day d: the
\* day number of the UTC calendar date of that instant
toISODate(d) == (d * 1440 + TimezoneOffset(d)) \div 1440

\* new Date(x.getFullYear(), x.getMonth(), x.getDate()) of the instant that lies
\* utcMinutes after 2025-01-01T00:00Z
localDayOfInstant(utcMinutes) ==
  LET guess == utcMinutes \div 1440
  IN (utcMinutes - TimezoneOffset(guess)) \div 1440

\* normalizeDate: <<>> for null, <<d>> for the Date at local midnight of day d.
\* Date strings in the four numeric formats are outside the inputs of the model:
\* a string cell is blank or text that neither matches a format nor Date.parse.
normalizeDate(value) ==
  CASE value.t = "null" -> <<>>
    [] value.t = "date" -> <<value.n \div 1440>>
    [] value.t = "num" -> <<localDayOfInstant((value.n - ExcelSerialOf2025) * 1440)>>
    [] OTHER -> <<>>

\* day numbers of the eleven entries of holidays2025
holidays2025 == {0, 107, 138, 181, 215, 243, 272, 285, 314, 358, 359}

\* Date.prototype.getDay(): 0 = Sunday .. 6 = Saturday (2025-01-01 is a Wednesday)
getDay(d) == (d + 3) % 7

isBusinessDay(d) ==
  IF d \in holidays2025 THEN FALSE ELSE getDay(d) >= 1 /\ getDay(d) <= 5

(* ------------------------- multi-day expansion ------------------------- *)

\* the cap of one day's hours, 8 h in hundredths
DayCap == 800

RECURSIVE nextWeekday(_)
\* a search that stops on any Monday to Friday, holiday or not
nextWeekday(d) == IF getDay(d) >= 1 /\ getDay(d) <= 5 THEN d ELSE nextWeekday(d + 1)

RECURSIVE nextBusinessDay(_)
\* while (!isBusinessDay(currentDate)) currentDate = currentDate + 24h
nextBusinessDay(d) == IF isBusinessDay(d) THEN d ELSE nextBusinessDay(d + 1)

RECURSIVE expandLoopWholeDays(_, _, _)
\* a variant of the loop that stops once less than a full day remains
expandLoopWholeDays(currentDate, remaining, leaveCode) ==
  IF remaining >= DayCap
  THEN LET day == nextBusinessDay(currentDate)
       IN <<[Date |-> day, OracleHours |-> DayCap, OracleLeaveCode |-> leaveCode]>>
          \o expandLoopWholeDays(day + 1, remaining - DayCap, leaveCode)
  ELSE <<>>

RECURSIVE expandLoop(_, _, _)
\* while (remaining > 0) { ... }
expandLoop(currentDate, remaining, leaveCode) ==
  IF remaining > 0
  THEN LET day == nextBusinessDay(currentDate)
           dayHours == Min(DayCap, remaining)
       IN <<[Date |-> day, OracleHours |-> dayHours, OracleLeaveCode |-> leaveCode]>>
          \o expandLoop(day + 1, remaining - dayHours, leaveCode)
  ELSE <<>>

\* the body of expandOracleEntries' forEach for one record
expandRow(row) ==
  IF row.OracleHours <= DayCap
  THEN <<row>>
  ELSE expandLoop(row.Date, row.OracleHours, row.OracleLeaveCode)

RECURSIVE expandOracleEntries(_)
expandOracleEntries(oracleRowsIn) ==
  IF oracleRowsIn = <<>> THEN <<>>
  ELSE expandRow(Head(oracleRowsIn)) \o expandOracleEntries(Tail(oracleRowsIn))

(* ------------------- the expansion loop, step by step ------------------ *)

\* The hours of a record are a double. The pipeline above computes with the
\* hours a timesheet holds, multiples of 0.01 h far below 2^53, on which the
\* subtraction of line 262 is exact. The loop below also takes the doubles 2^e
\* for e >= AbsorbExp: the doubles next to 2^e are at least 16 apart, so
\* 2^e - 8 rounds (to nearest, ties to even) back to 2^e.
AbsorbExp == 57

\* the double n / 100, and the double 2^e
exact(n) == [big |-> FALSE, n |-> n]
pow2(e) == [big |-> TRUE, n |-> e]

\* remaining > 0
dblPositive(x) == x.big \/ x.n > 0

\* Math.min(8, remaining), in hundredths
dblMin8(x) == IF x.big THEN DayCap ELSE Min(DayCap, x.n)

\* remaining - dayHours, for dayHours <= 8
dblMinus(x, dayHours) == IF x.big /\ x.n >= AbsorbExp THEN x ELSE exact(x.n - dayHours)

\* a < b
dblLess(a, b) ==
  IF a.big /\ b.big THEN a.n < b.n
  ELSE IF a.big THEN FALSE
  ELSE IF b.big THEN TRUE
  ELSE a.n < b.n

(* ------------------------------ extractors ---------------------------- *)

\* normalizeLeaveCodeRaw / normalizeLeaveCodeRawOracle (the two are the same text)
normalizeLeaveCodeRaw(leaveRaw) ==
  IF leaveRaw.t = "null" \/ trim(ToStr(leaveRaw)) = <<>> \/ trim(ToStr(leaveRaw)) = <<"-">>
  THEN <<"0">>
  ELSE LET s == trim(ToStr(leaveRaw))
           digits == digitsOnly(s)
       IN IF digits = <<>> THEN s ELSE digits

\* the Oracle -> DRMIS remap of a normalized code
oracleKeyOf(norm) ==
  IF norm = <<"0">> THEN <<"0">>
  ELSE IF Len(norm) = 3 THEN <<"1">> \o norm
  ELSE norm

\* const filtered = ['1200','1260','1261','1660']
filteredCodes ==
  {<<"1", "2", "0", "0">>, <<"1", "2", "6", "0">>, <<"1", "2", "6", "1">>,
   <<"1", "6", "6", "0">>}

whitelistActive(wl) == wl # {}

\* a variant without the fixed exclusions
oracleRecordOfUnfiltered(r, wl) ==
  LET d == normalizeDate(r.fromDate)
      oracleKey == oracleKeyOf(normalizeLeaveCodeRaw(r.leaveCode))
  IN IF d = <<>> THEN <<>>
     ELSE IF whitelistActive(wl) /\ oracleKey # <<"0">> /\ oracleKey \notin wl THEN <<>>
     ELSE IF whitelistActive(wl) /\ oracleKey = <<"0">> THEN <<>>
     ELSE <<[Date |-> d[1], OracleHours |-> NumberOrZero(r.hours), OracleLeaveCode |-> oracleKey]>>

\* the records extractOracleData pushes to out for one row: <<>> or <<record>>
oracleRecordOf(r, wl) ==
  LET d == normalizeDate(r.fromDate)
      hours == NumberOrZero(r.hours)
      oracleKey == oracleKeyOf(normalizeLeaveCodeRaw(r.leaveCode))
  IN IF d = <<>> THEN <<>>
     ELSE IF oracleKey \in filteredCodes THEN <<>>
     ELSE IF whitelistActive(wl) /\ oracleKey # <<"0">> /\ oracleKey \notin wl THEN <<>>
     ELSE IF whitelistActive(wl) /\ oracleKey = <<"0">> THEN <<>>
     ELSE <<[Date |-> d[1], OracleHours |-> hours, OracleLeaveCode |-> oracleKey]>>

RECURSIVE oracleOutOf(_, _)
\* the array out of extractOracleData, before expansion
oracleOutOf(rowsObjects, wl) ==
  IF rowsObjects = <<>> THEN <<>>
  ELSE oracleRecordOf(Head(rowsObjects), wl) \o oracleOutOf(Tail(rowsObjects), wl)

extractOracleData(rowsObjects, wl) == expandOracleEntries(oracleOutOf(rowsObjects, wl))

\* a variant that keeps the rows whose code starts with 30
drmisRecordOfWith30(r, wl) ==
  LET date == normalizeDate(r.date)
      leaveStr == normalizeLeaveCodeRaw(r.atype)
      matchCode == IF leaveStr = <<"0">> THEN <<"0">> ELSE digitsOnly(leaveStr)
  IN IF date = <<>> THEN <<>>
     ELSE IF whitelistActive(wl) /\ matchCode \notin wl THEN <<>>
     ELSE <<[PersNo |-> r.pers, Date |-> date[1], DrmisHours |-> NumberOrZero(r.hours),
             DrmisLeaveCode |-> leaveStr]>>

\* the record extractDrmisData pushes for one row: <<>> or <<record>>
drmisRecordOf(r, wl) ==
  LET date == normalizeDate(r.date)
      drmisHours == NumberOrZero(r.hours)
      leaveStr == normalizeLeaveCodeRaw(r.atype)
      matchCode == IF leaveStr = <<"0">> THEN <<"0">> ELSE digitsOnly(leaveStr)
  IN IF date = <<>> THEN <<>>
     ELSE IF Len(leaveStr) >= 2 /\ SubSeq(leaveStr, 1, 2) = <<"3", "0">> THEN <<>>
     ELSE IF whitelistActive(wl) /\ matchCode \notin wl THEN <<>>
     ELSE <<[PersNo |-> r.pers, Date |-> date[1], DrmisHours |-> drmisHours,
             DrmisLeaveCode |-> leaveStr]>>

RECURSIVE extractDrmisData(_, _)
extractDrmisData(rowsObjects, wl) ==
  IF rowsObjects = <<>> THEN <<>>
  ELSE drmisRecordOf(Head(rowsObjects), wl) \o extractDrmisData(Tail(rowsObjects), wl)

(* --------------------------- column resolution ------------------------- *)

\* the characters of a string
Chars(str) == [i \in 1..Len(str) |-> SubSeq(str, i, i)]

UpperChars == Chars("ABCDEFGHIJKLMNOPQRSTUVWXYZ")
LowerChars == Chars("abcdefghijklmnopqrstuvwxyz")

\* the lower-case letter of each upper-case letter
lowerOf == [c \in {UpperChars[i] : i \in 1..26} |->
              LowerChars[CHOOSE i \in 1..26 : UpperChars[i] = c]]

lowerChar(c) == IF c \in DOMAIN lowerOf THEN lowerOf[c] ELSE c

\* String.prototype.toLowerCase
toLowerCase(s) == [i \in 1..Len(s) |-> lowerChar(s[i])]

\* String.prototype.includes
includes(s, sub) == \E i \in 1..(Len(s) - Len(sub) + 1) : SubSeq(s, i, i + Len(sub) - 1) = sub

\* Object.keys(rowsObjects[0]): the headers in order, a repeated header once
objectKeys(headers) ==
  LET first(i) == \A j \in 1..(i - 1) : headers[j] # headers[i]
      keep[i \in 0..Len(headers)] ==
        IF i = 0 THEN <<>>
        ELSE IF first(i) THEN Append(keep[i - 1], headers[i]) ELSE keep[i - 1]
  IN keep[Len(headers)]

\* k.toLowerCase().trim() of each key
loweredKeys(keys) == [i \in 1..Len(keys) |-> trim(toLowerCase(keys[i]))]

\* keys.forEach(k => lowerMap[k.toLowerCase().trim()] = k): the value stored
\* under a lowered key is the last header with that lowered form, <<>> for none
lowerMapGet(keys, lowered, lk) ==
  LET hits == {i \in 1..Len(keys) : lowered[i] = lk}
  IN IF hits = {} THEN <<>> ELSE <<keys[CHOOSE i \in hits : \A j \in hits : j <= i]>>

\* Object.keys(lowerMap).find(k => k.includes(a) && k.includes(b) && !k.includes(excluded)),
\* then lowerMap[...] of it; <<>> for null. excluded = <<>> stands for no exclusion.
findKey(keys, lowered, a, b, excluded) ==
  LET hits == {i \in 1..Len(keys) :
                 /\ includes(lowered[i], a) /\ includes(lowered[i], b)
                 /\ (excluded = <<>> \/ ~includes(lowered[i], excluded))}
  IN IF hits = {} THEN <<>>
     ELSE lowerMapGet(keys, lowered, lowered[CHOOSE i \in hits : \A j \in hits : i <= j])

\* the fragments the header names are searched for
kPers == Chars("pers")
kNo == Chars("no")
kDate == Chars("date")
kHours == Chars("hours")
kAA == Chars("a/a")
kType == Chars("type")
kText == Chars("text")
kFrom == Chars("from")
kRecorded == Chars("recorded")
kLeave == Chars("leave")
kCode == Chars("code")

\* a variant that names the first missing column only
drmisMissingFirstOnly(headers) ==
  LET keys == objectKeys(headers)
      lowered == loweredKeys(keys)
  IN IF findKey(keys, lowered, kPers, kNo, <<>>) = <<>> THEN <<"Pers No">>
     ELSE IF lowerMapGet(keys, lowered, kDate) = <<>> THEN <<"Date">>
     ELSE IF lowerMapGet(keys, lowered, kHours) = <<>> THEN <<"Hours">>
     ELSE IF findKey(keys, lowered, kAA, kType, kText) = <<>> THEN <<"A/A Type">>
     ELSE <<>>

\* the names of extractDrmisData's missing columns, in the order they are pushed
drmisMissing(headers) ==
  LET keys == objectKeys(headers)
      lowered == loweredKeys(keys)
  IN (IF findKey(keys, lowered, kPers, kNo, <<>>) = <<>> THEN <<"Pers No">> ELSE <<>>)
     \o (IF lowerMapGet(keys, lowered, kDate) = <<>> THEN <<"Date">> ELSE <<>>)
     \o (IF lowerMapGet(keys, lowered, kHours) = <<>> THEN <<"Hours">> ELSE <<>>)
     \o (IF findKey(keys, lowered, kAA, kType, kText) = <<>> THEN <<"A/A Type">> ELSE <<>>)

\* the names of extractOracleData's missing columns
oracleMissing(headers) ==
  LET keys == objectKeys(headers)
      lowered == loweredKeys(keys)
  IN (IF findKey(keys, lowered, kFrom, kDate, <<>>) = <<>>
         /\ lowerMapGet(keys, lowered, kDate) = <<>> THEN <<"From Date">> ELSE <<>>)
     \o (IF findKey(keys, lowered, kHours, kRecorded, <<>>) = <<>>
            /\ lowerMapGet(keys, lowered, kHours) = <<>> THEN <<"Hours Recorded">> ELSE <<>>)
     \o (IF findKey(keys, lowered, kLeave, kCode, <<>>) = <<>> THEN <<"Leave Code">> ELSE <<>>)

\* keys.join(', ') of the message, as the list of keys
available(headers) == objectKeys(headers)

\* the Error an extractor throws, given its list of missing columns: none for an
\* empty list of records (the early return) or an empty list of missing columns;
\* <<>> or <<error>>
thrown(fileType, missing, headers, rowsObjects) ==
  IF rowsObjects = <<>> \/ missing = <<>> THEN <<>>
  ELSE <<[fileType |-> fileType, missing |-> missing, available |-> available(headers)]>>

drmisError(headers, rowsObjects) == thrown("DRMIS", drmisMissing(headers), headers, rowsObjects)

oracleError(headers, rowsObjects) == thrown("ORACLE", oracleMissing(headers), headers, rowsObjects)

(* --------------------------- sheetRowsToObjects ------------------------ *)

\* the rows scanned for the header row
maxScanRows == 30

\* the score a header keyword adds
keywordBonus == 50

\* the least count of filled cells of a column that is kept
minFilled == 3

headerKeywords ==
  { Chars("pers"), Chars("pers.no"), Chars("pers no"), Chars("pers_no"), Chars("date"),
    Chars("hours"), Chars("a/atype"), Chars("aatype"), Chars("a a type"), Chars("a a"),
    Chars("leave"), Chars("leave code"), Chars("a/a type") }

mathMax(a, b) == IF a >= b THEN a ELSE b

\* row[c] of a JavaScript array, undefined (here Null) past its end; c counts from 1
cellAt(row, c) == IF c >= 1 /\ c <= Len(row) THEN row[c] ELSE Null

\* c === null || c === undefined || String(c).trim() === ''
isBlankCell(c) == c.t = "null" \/ trim(ToStr(c)) = <<>>

\* (c === null || c === undefined) ? '' : String(c).trim().toLowerCase()
normCell(c) == IF c.t = "null" THEN <<>> ELSE toLowerCase(trim(ToStr(c)))

hasKeyword(row) ==
  \E i \in 1..Len(row) : \E k \in headerKeywords : includes(normCell(row[i]), k)

scoreOf(row) ==
  Cardinality({i \in 1..Len(row) : normCell(row[i]) # <<>>})
    + (IF hasKeyword(row) THEN keywordBonus ELSE 0)

\* a variant with score >= bestScore in the scan: the last row with the highest score
bestIdxOfLast(rows) ==
  LET maxScan == Min(maxScanRows, Len(rows))
      score == [i \in 1..maxScan |-> scoreOf(rows[i])]
  IN CHOOSE i \in 1..maxScan :
       /\ \A j \in 1..maxScan : score[j] <= score[i]
       /\ \A j \in (i + 1)..maxScan : score[j] < score[i]

\* bestIdx: the first of the scanned rows with the highest score; rows count from 1
bestIdxOf(rows) ==
  LET maxScan == Min(maxScanRows, Len(rows))
      score == [i \in 1..maxScan |-> scoreOf(rows[i])]
  IN CHOOSE i \in 1..maxScan :
       /\ \A j \in 1..maxScan : score[j] <= score[i]
       /\ \A j \in 1..(i - 1) : score[j] < score[i]

\* colNonEmpty[c]: the filled cells of column c below the header row
colNonEmptyOf(rows, bestIdx, c) ==
  Cardinality({r \in (bestIdx + 1)..Len(rows) : ~isBlankCell(cellAt(rows[r], c))})

\* Math.max(3, Math.ceil(totalRows * 0.15))
thresholdOf(totalRows) == mathMax(minFilled, (totalRows * 15 + 99) \div 100)

\* a variant of the column bounds that keeps every column of the header row
columnBoundsUntrimmed(rows, bestIdx) ==
  [firstCol |-> 1, lastCol |-> Len(rows[bestIdx])]

\* firstCol and lastCol, counting from 1
columnBounds(rows, bestIdx) ==
  LET colCount == Len(rows[bestIdx])
      threshold == thresholdOf(Len(rows) - bestIdx)
      kept == {c \in 1..colCount : colNonEmptyOf(rows, bestIdx, c) >= threshold}
  IN IF kept = {} THEN [firstCol |-> 1, lastCol |-> colCount]
     ELSE [firstCol |-> CHOOSE c \in kept : \A d \in kept : c <= d,
           lastCol |-> CHOOSE c \in kept : \A d \in kept : c >= d]

\* the header strings of the kept columns
sheetHeaders(rows, bestIdx, b) ==
  [hi \in 1..(b.lastCol - b.firstCol + 1) |->
     LET h == cellAt(rows[bestIdx], b.firstCol + hi - 1)
     IN IF h.t = "null" THEN <<>> ELSE trim(ToStr(h))]

\* obj: each header with the cell of the last column that has it
sheetObject(row, headers, b) ==
  [h \in {headers[hi] : hi \in 1..Len(headers)} |->
     LET last == CHOOSE hi \in 1..Len(headers) :
                   headers[hi] = h /\ \A hj \in (hi + 1)..Len(headers) : headers[hj] # h
     IN cellAt(row, b.firstCol + last - 1)]

RECURSIVE sheetObjects(_, _, _, _)
\* objs: an object for each row, from row r on, with a filled cell in the kept columns
sheetObjects(rows, r, headers, b) ==
  IF r > Len(rows) THEN <<>>
  ELSE IF \A c \in b.firstCol..b.lastCol : isBlankCell(cellAt(rows[r], c))
  THEN sheetObjects(rows, r + 1, headers, b)
  ELSE <<sheetObject(rows[r], headers, b)>> \o sheetObjects(rows, r + 1, headers, b)

sheetRowsToObjects(rows) ==
  IF rows = <<>> THEN [headers |-> <<>>, rows |-> <<>>]
  ELSE LET bestIdx == bestIdxOf(rows)
           b == columnBounds(rows, bestIdx)
           headers == sheetHeaders(rows, bestIdx, b)
       IN [headers |-> headers, rows |-> sheetObjects(rows, bestIdx + 1, headers, b)]

(* ------------------------------ reconcileData -------------------------- *)

\* String(pers || '')
persKeyOf(pers) == IF Truthy(pers) THEN ToStr(pers) ELSE <<>>

\* keyFor(date, pers) = ISO date + '|' + String(pers || ''). The ISO date has no
\* '|', so the key is the pair, and k.startsWith(dateStr + '|') is k[1] = dateStr.
keyFor(date, pers) == <<toISODate(date), persKeyOf(pers)>>

hasPers(r) == r.PersNo.t # "null" /\ trim(ToStr(r.PersNo)) # <<>>

\* defaultPers: String of the first Pers No that is neither null nor blank, else ''
defaultPersOf(drmisData) ==
  IF \E i \in 1..Len(drmisData) : hasPers(drmisData[i])
  THEN LET first == CHOOSE i \in 1..Len(drmisData) :
                      hasPers(drmisData[i]) /\ \A j \in 1..(i - 1) : ~hasPers(drmisData[j])
       IN ToStr(drmisData[first].PersNo)
  ELSE <<>>

mapHas(map, k) == \E i \in 1..Len(map) : map[i].key = k

\* a variant of the seeding that gives a new row the Oracle code '0'
seedDrmisOracleZero(map, r) ==
  IF mapHas(map, keyFor(r.Date, r.PersNo)) THEN map
  ELSE Append(map, [key |-> keyFor(r.Date, r.PersNo), Date |-> r.Date, PersNo |-> r.PersNo,
                    DrmisHours |-> r.DrmisHours, DrmisLeaveCode |-> r.DrmisLeaveCode,
                    OracleHours |-> 0, OracleLeaveCode |-> <<"0">>])

\* a variant of the seeding in which a later record of a key overwrites the row
seedDrmisLastWins(map, r) ==
  LET k == keyFor(r.Date, r.PersNo)
  IN IF mapHas(map, k)
     THEN [i \in 1..Len(map) |->
             IF map[i].key = k
             THEN [map[i] EXCEPT !.DrmisHours = r.DrmisHours,
                                 !.DrmisLeaveCode = r.DrmisLeaveCode]
             ELSE map[i]]
     ELSE Append(map, [key |-> k, Date |-> r.Date, PersNo |-> r.PersNo,
                       DrmisHours |-> r.DrmisHours, DrmisLeaveCode |-> r.DrmisLeaveCode,
                       OracleHours |-> 0, OracleLeaveCode |-> <<>>])

\* drmisData.forEach: a record seeds a row unless its key is already in the map
seedDrmis(map, r) ==
  IF mapHas(map, keyFor(r.Date, r.PersNo)) THEN map
  ELSE Append(map, [key |-> keyFor(r.Date, r.PersNo), Date |-> r.Date, PersNo |-> r.PersNo,
                    DrmisHours |-> r.DrmisHours, DrmisLeaveCode |-> r.DrmisLeaveCode,
                    OracleHours |-> 0, OracleLeaveCode |-> <<>>])

RECURSIVE seedAll(_, _)
seedAll(map, drmisData) ==
  IF drmisData = <<>> THEN map
  ELSE seedAll(seedDrmis(map, Head(drmisData)), Tail(drmisData))

\* a variant of the placement that looks for the whole key, date and defaultPers
placeOracleByKey(map, r, defaultPers) ==
  LET dateStr == toISODate(r.Date)
      found == {i \in 1..Len(map) : map[i].key = <<dateStr, defaultPers>>}
  IN IF found # {}
     THEN LET foundKey == CHOOSE i \in found : \A j \in found : i <= j
          IN [map EXCEPT ![foundKey].OracleHours = r.OracleHours,
                         ![foundKey].OracleLeaveCode = r.OracleLeaveCode]
     ELSE Append(map, [key |-> <<dateStr, defaultPers>>, Date |-> r.Date,
                       PersNo |-> Str(defaultPers), DrmisHours |-> 0,
                       DrmisLeaveCode |-> <<"0">>, OracleHours |-> r.OracleHours,
                       OracleLeaveCode |-> r.OracleLeaveCode])

\* a variant of the placement that adds the hours of a record to the hours of
\* the row that takes it
placeOracleAdding(map, r, defaultPers) ==
  LET dateStr == toISODate(r.Date)
      found == {i \in 1..Len(map) : map[i].key[1] = dateStr}
  IN IF found # {}
     THEN LET foundKey == CHOOSE i \in found : \A j \in found : i <= j
          IN [map EXCEPT ![foundKey].OracleHours = @ + r.OracleHours,
                         ![foundKey].OracleLeaveCode = r.OracleLeaveCode]
     ELSE Append(map, [key |-> <<dateStr, defaultPers>>, Date |-> r.Date,
                       PersNo |-> Str(defaultPers), DrmisHours |-> 0,
                       DrmisLeaveCode |-> <<"0">>, OracleHours |-> r.OracleHours,
                       OracleLeaveCode |-> r.OracleLeaveCode])

\* oracleData.forEach: the first key of the record's date takes the record, else a
\* new row is made under defaultPers
placeOracle(map, r, defaultPers) ==
  LET dateStr == toISODate(r.Date)
      found == {i \in 1..Len(map) : map[i].key[1] = dateStr}
  IN IF found # {}
     THEN LET foundKey == CHOOSE i \in found : \A j \in found : i <= j
          IN [map EXCEPT ![foundKey].OracleHours = r.OracleHours,
                         ![foundKey].OracleLeaveCode = r.OracleLeaveCode]
     ELSE Append(map, [key |-> <<dateStr, defaultPers>>, Date |-> r.Date,
                       PersNo |-> Str(defaultPers), DrmisHours |-> 0,
                       DrmisLeaveCode |-> <<"0">>, OracleHours |-> r.OracleHours,
                       OracleLeaveCode |-> r.OracleLeaveCode])

RECURSIVE placeAll(_, _, _)
placeAll(map, oracleData, defaultPers) ==
  IF oracleData = <<>> THEN map
  ELSE placeAll(placeOracle(map, Head(oracleData), defaultPers), Tail(oracleData), defaultPers)

\* the map of reconcileData after both forEach loops, in insertion order
mergeMapOf(drmisData, oracleData) ==
  placeAll(seedAll(<<>>, drmisData), oracleData, defaultPersOf(drmisData))

\* 'Pers No' of a merged row
mergedPers(persNo, defaultPers) ==
  IF persNo.t = "null" \/ persNo = Str(<<>>) THEN Str(defaultPers)
  ELSE IF Truthy(ToNumber(persNo)) THEN ToNumber(persNo) ELSE persNo

\* the canonical Drmis Leave Code of a merged row: '0' when blank, String(parseInt)
\* when it parses
canonicalDrmisCode(code) ==
  LET c == IF code = <<>> THEN <<"0">> ELSE code
  IN IF trim(c) = <<>> THEN <<"0">>
     ELSE IF parseInt(c).t = "num" THEN ToStr(parseInt(c)) ELSE c

mergedRowOf(m, defaultPers) ==
  [Date |-> m.Date, PersNo |-> mergedPers(m.PersNo, defaultPers),
   OracleLeaveCode |-> m.OracleLeaveCode, OracleHours |-> m.OracleHours,
   DrmisLeaveCode |-> canonicalDrmisCode(m.DrmisLeaveCode), DrmisHours |-> m.DrmisHours]

\* the array merged of reconcileData
mergedOf(map, defaultPers) == [i \in 1..Len(map) |-> mergedRowOf(map[i], defaultPers)]

\* the whitelist filter over merged rows
passesWhitelist(r, wl) ==
  ~whitelistActive(wl) \/ trim(r.DrmisLeaveCode) \in wl \/ trim(r.OracleLeaveCode) \in wl

\* a variant of the mismatch predicate that looks at the codes only
isMismatchRowCodesOnly(r) == r.DrmisLeaveCode # r.OracleLeaveCode

\* the predicate of the mismatch filter
isMismatchRow(r) ==
  r.DrmisLeaveCode # r.OracleLeaveCode \/ r.DrmisHours # r.OracleHours

mismatchOf(r) ==
  [Date |-> r.Date, PersNo |-> r.PersNo, OracleLeaveCode |-> r.OracleLeaveCode,
   OracleHours |-> r.OracleHours, DrmisLeaveCode |-> r.DrmisLeaveCode,
   DrmisHours |-> r.DrmisHours, AddToCatsEdits |-> TRUE]

RECURSIVE insertByDate(_, _)
\* place x behind every element whose date is not later (the sort is stable)
insertByDate(sorted, x) ==
  IF sorted = <<>> THEN <<x>>
  ELSE IF Head(sorted).Date <= x.Date THEN <<Head(sorted)>> \o insertByDate(Tail(sorted), x)
  ELSE <<x>> \o sorted

RECURSIVE sortLoop(_, _)
sortLoop(sorted, rest) ==
  IF rest = <<>> THEN sorted ELSE sortLoop(insertByDate(sorted, Head(rest)), Tail(rest))

\* a variant of the sort that keeps the order of the merged rows
keepOrder(list) == list

\* mismatches.sort((a,b) => new Date(a.Date) - new Date(b.Date))
sortByDate(list) == sortLoop(<<>>, list)

keepRow(r, wl) == passesWhitelist(r, wl) /\ isMismatchRow(r)

RECURSIVE filterMap(_, _)
filterMap(rows, wl) ==
  IF rows = <<>> THEN <<>>
  ELSE (IF keepRow(Head(rows), wl) THEN <<mismatchOf(Head(rows))>> ELSE <<>>)
       \o filterMap(Tail(rows), wl)

\* the mismatches reconcileData returns for its merged array
mismatchesOf(mergedRows, wl) == sortByDate(filterMap(mergedRows, wl))

reconcileData(drmisData, oracleData, wl) ==
  mismatchesOf(mergedOf(mergeMapOf(drmisData, oracleData), defaultPersOf(drmisData)), wl)

(* ---------------------------- generateCatsEdits ------------------------ *)

isLeapYear(y) == (y % 4 = 0 /\ y % 100 # 0) \/ y % 400 = 0

daysInYear(y) == IF isLeapYear(y) THEN 366 ELSE 365

daysInMonth(y, m) ==
  IF m = 1 THEN (IF isLeapYear(y) THEN 29 ELSE 28)
  ELSE IF m \in {3, 5, 8, 10} THEN 30 ELSE 31

RECURSIVE monthAndDate(_, _, _)
\* getMonth() (0-based) and getDate() of the day that is rest days into year y,
\* counting from month m
monthAndDate(y, m, rest) ==
  IF rest < daysInMonth(y, m) THEN [year |-> y, month |-> m, date |-> rest + 1]
  ELSE monthAndDate(y, m + 1, rest - daysInMonth(y, m))

RECURSIVE civilFrom(_, _)
civilFrom(y, d) ==
  IF d < 0 THEN civilFrom(y - 1, d + daysInYear(y - 1))
  ELSE IF d >= daysInYear(y) THEN civilFrom(y + 1, d - daysInYear(y))
  ELSE monthAndDate(y, 0, d)

\* getFullYear(), getMonth(), getDate() of the Date of day number d
civilOfDay(d) == civilFrom(2025, d)

monthNames ==
  <<"Jan", "Feb", "Mar", "Apr", "May", "Jun", "Jul", "Aug", "Sep", "Oct", "Nov", "Dec">>

\* String(n).padStart(2, '0')
padStart2(n) == IF n < 10 THEN "0" \o ToString(n) ELSE ToString(n)

formattedDateForDisplay(d) ==
  LET c == civilOfDay(d)
  IN monthNames[c.month + 1] \o " " \o padStart2(c.date) \o ", " \o ToString(c.year)

RECURSIVE joinReasons(_)
\* reasons.join(', ')
joinReasons(reasons) ==
  IF reasons = <<>> THEN ""
  ELSE IF Len(reasons) = 1 THEN reasons[1]
  ELSE reasons[1] \o ", " \o joinReasons(Tail(reasons))

\* a variant of the reason that names the codes only
discrepancyCodesOnly(row) ==
  joinReasons(IF row.OracleLeaveCode # row.DrmisLeaveCode THEN <<"Code Mismatch">> ELSE <<>>)

discrepancyOf(row) ==
  joinReasons((IF row.OracleLeaveCode # row.DrmisLeaveCode THEN <<"Code Mismatch">> ELSE <<>>)
              \o (IF row.OracleHours # row.DrmisHours THEN <<"Hours Mismatch">> ELSE <<>>))

\* isNaN(parseInt(code)) ? code : parseInt(code)
codeValue(code) == IF parseInt(code).t = "num" THEN parseInt(code) ELSE Str(code)

\* the Oracle side counts as empty: code blank or '0', and hours 0
oracleSideEmpty(row) ==
  (trim(row.OracleLeaveCode) = <<>> \/ row.OracleLeaveCode = <<"0">>) /\ row.OracleHours = 0

usableCode(code) == code # <<>> /\ code # <<"0">>

\* aa_code_value
aaCodeOf(row) ==
  IF oracleSideEmpty(row)
  THEN (IF usableCode(row.DrmisLeaveCode) THEN codeValue(row.DrmisLeaveCode) ELSE Str(<<>>))
  ELSE IF usableCode(row.OracleLeaveCode) THEN codeValue(row.OracleLeaveCode)
  ELSE IF usableCode(row.DrmisLeaveCode) THEN codeValue(row.DrmisLeaveCode)
  ELSE Str(<<>>)

\* hoursValue
hoursValueOf(row) == IF oracleSideEmpty(row) THEN 0 ELSE row.OracleHours

\* a variant of the replaced expression without the test of the DRMIS code
replacedAnyDrmis(row) ==
  usableCode(row.OracleLeaveCode) /\ row.OracleLeaveCode # trim(row.DrmisLeaveCode)

\* the truth value of the replaced expression
replacedOf(row) ==
  LET originalDrmisCode == trim(row.DrmisLeaveCode)
  IN /\ usableCode(row.OracleLeaveCode)
     /\ usableCode(originalDrmisCode)
     /\ row.OracleLeaveCode # originalDrmisCode

TotalHoursLabel == <<"T", "o", "t", "a", "l", " ", "H", "o", "u", "r", "s">>

\* the data-row pushed for a mismatch
dataRowOf(row) ==
  [pers_no |-> IF Truthy(row.PersNo) THEN ToNumber(row.PersNo) ELSE Str(<<>>),
   date |-> formattedDateForDisplay(row.Date),
   work_order |-> <<>>, act |-> <<>>,
   aa_code |-> aaCodeOf(row),
   hours |-> Num(hoursValueOf(row)),
   discrepancy_reason |-> discrepancyOf(row),
   row_type |-> "data-row", editable |-> FALSE,
   original_drmis_code |-> trim(row.DrmisLeaveCode),
   original_drmis_hours |-> row.DrmisHours,
   replaced |-> replacedOf(row)]

\* the total-row pushed for a mismatch; it has no original_* and replaced fields,
\* which are left at blank values here
totalRowOf(row) ==
  [pers_no |-> Str(<<>>), date |-> "", work_order |-> <<>>, act |-> <<>>,
   aa_code |-> Str(TotalHoursLabel),
   hours |-> IF row.OracleHours # 0 THEN Num(row.OracleHours) ELSE Str(<<>>),
   discrepancy_reason |-> "",
   row_type |-> "total-row", editable |-> FALSE,
   original_drmis_code |-> <<>>, original_drmis_hours |-> 0, replaced |-> FALSE]

RECURSIVE generateCatsEditsTotalFirst(_)
\* a variant that pushes the total-row of a mismatch before its data-row
generateCatsEditsTotalFirst(rows) ==
  IF rows = <<>> THEN <<>>
  ELSE <<totalRowOf(Head(rows)), dataRowOf(Head(rows))>> \o generateCatsEditsTotalFirst(Tail(rows))

RECURSIVE generateCatsEdits(_)
generateCatsEdits(rows) ==
  IF rows = <<>> THEN <<>>
  ELSE <<dataRowOf(Head(rows)), totalRowOf(Head(rows))>> \o generateCatsEdits(Tail(rows))

(* ----------------------------- buildDrmisLookup ------------------------ *)

kRec == Chars("rec")
kOrder == Chars("order")
kAct == Chars("act")

\* the field of a row object that holds the cell of each column, by position
columnFields == <<"pers", "date", "hours", "atype", "recOrder", "act">>

\* r[key]: the cell under the header key (of the last column that has it); Null
\* (undefined) when key is <<>> (null) or no column has it
rowCell(r, headers, key) ==
  LET hits == {i \in 1..Len(headers) : key # <<>> /\ headers[i] = key[1]}
  IN IF hits = {} THEN Null
     ELSE r[columnFields[CHOOSE i \in hits : \A j \in hits : j <= i]]

\* Object.keys(lowerMap).find(k => k.includes(a)), then lowerMap[...] of it
findKey1(keys, lowered, a) == findKey(keys, lowered, a, a, <<>>)

\* persKey, dateKey, recKey, actKey, aatypeKey and hoursKey; <<>> for null.
\* hoursKey is the literal 'Hours' when a lowered key is 'hours'.
lookupKeys(headers) ==
  LET keys == objectKeys(headers)
      lowered == loweredKeys(keys)
      orElse(a, b) == IF a # <<>> THEN a ELSE b
  IN [persKey |-> orElse(findKey(keys, lowered, kPers, kNo, <<>>),
                         orElse(lowerMapGet(keys, lowered, Chars("pers.no")),
                                lowerMapGet(keys, lowered, kPers))),
      dateKey |-> findKey1(keys, lowered, kDate),
      recKey |-> orElse(findKey(keys, lowered, kRec, kOrder, <<>>),
                        lowerMapGet(keys, lowered, Chars("rec.order"))),
      actKey |-> findKey1(keys, lowered, kAct),
      aatypeKey |-> orElse(findKey(keys, lowered, kAA, kType, <<>>),
                           lowerMapGet(keys, lowered, Chars("a/atype"))),
      hoursKey |-> IF \E i \in 1..Len(lowered) : lowered[i] = kHours
                   THEN <<Chars("Hours")>> ELSE <<>>]

\* x ? String(x).trim() : ''
trimmedOrEmpty(x) == IF Truthy(x) THEN trim(ToStr(x)) ELSE <<>>

\* the entry pushed for a row, and the key it is pushed under
lookupEntry(r, headers, k) ==
  LET aatype == trimmedOrEmpty(rowCell(r, headers, k.aatypeKey))
  IN [recOrder |-> trimmedOrEmpty(rowCell(r, headers, k.recKey)),
      act |-> trimmedOrEmpty(rowCell(r, headers, k.actKey)),
      aatype |-> IF aatype = <<>> \/ aatype = <<"-">> THEN <<"0">> ELSE aatype,
      hours |-> NumberOrZero(rowCell(r, headers, k.hoursKey))]

lookupMapKey(r, headers, k, d) ==
  <<toISODate(d), trimmedOrEmpty(rowCell(r, headers, k.persKey))>>

\* drmisLookup.get(mapKey) || []
lookupGet(map, mapKey) ==
  IF \E i \in 1..Len(map) : map[i].key = mapKey
  THEN (CHOOSE m \in {map[i] : i \in 1..Len(map)} : m.key = mapKey).entries
  ELSE <<>>

\* if (!has) set(mapKey, []); get(mapKey).push(entry)
lookupPush(map, mapKey, entry) ==
  IF \E i \in 1..Len(map) : map[i].key = mapKey
  THEN [i \in 1..Len(map) |->
          IF map[i].key = mapKey
          THEN [map[i] EXCEPT !.entries = Append(map[i].entries, entry)]
          ELSE map[i]]
  ELSE Append(map, [key |-> mapKey, entries |-> <<entry>>])

RECURSIVE lookupOfRows(_, _, _, _)
\* rowsObjects.forEach: rows without a date are passed over
lookupOfRows(map, rowsObjects, headers, k) ==
  IF rowsObjects = <<>> THEN map
  ELSE LET r == Head(rowsObjects)
           d == normalizeDate(rowCell(r, headers, k.dateKey))
       IN lookupOfRows(IF d = <<>> THEN map
                       ELSE lookupPush(map, lookupMapKey(r, headers, k, d[1]),
                                       lookupEntry(r, headers, k)),
                       Tail(rowsObjects), headers, k)

\* the Map buildDrmisLookup leaves in drmisLookup: the keys in the order they
\* were set, each with its array of entries
buildDrmisLookup(headers, rowsObjects) ==
  IF rowsObjects = <<>> THEN <<>>
  ELSE lookupOfRows(<<>>, rowsObjects, headers, lookupKeys(headers))

(* ------------------------- IEEE 754 doubles ---------------------------- *)

\* the element of a set of one element: Only({F : x \in {e}}) is F for x = e,
\* with e computed once
Only(S) == CHOOSE r \in S : TRUE

\* A natural number of any size is the sequence of its digits in base 2^15,
\* lowest first, without zero digits at the top; 0 is <<>>.
Limb == 2^15

limbOf(a, i) == IF i <= Len(a) THEN a[i] ELSE 0

bnTrim(a) ==
  Only({IF top = {} THEN <<>> ELSE SubSeq(v, 1, CHOOSE i \in top : \A j \in top : j <= i) :
        <<v, top>> \in {<<d, {i \in 1..Len(d) : d[i] # 0}>> : d \in {a}}})

\* the natural number n < 2^31
bnOfInt(n) == bnTrim(<<n % Limb, (n \div Limb) % Limb, n \div (Limb * Limb)>>)

\* the value of a, which is less than 2^31
bnToInt(a) ==
  Only({limbOf(v, 1) + Limb * limbOf(v, 2) + Limb * Limb * limbOf(v, 3) : v \in {a}})

bnAdd(x, y) ==
  Only({LET sum[i \in 0..mathMax(Len(a), Len(b))] ==
              IF i = 0 THEN [out |-> <<>>, carry |-> 0]
              ELSE Only({[out |-> Append(s.out, t % Limb), carry |-> t \div Limb] :
                         <<s, t>> \in {<<r, limbOf(a, i) + limbOf(b, i) + r.carry>> :
                                         r \in {sum[i - 1]}}})
        IN Only({IF s.carry = 0 THEN s.out ELSE Append(s.out, s.carry) :
                 s \in {sum[mathMax(Len(a), Len(b))]}}) :
        <<a, b>> \in {<<x, y>>}})

\* x - y, for x >= y
bnSub(x, y) ==
  Only({LET diff[i \in 0..Len(a)] ==
              IF i = 0 THEN [out |-> <<>>, borrow |-> 0]
              ELSE Only({[out |-> Append(s.out, t % Limb),
                          borrow |-> IF t < 0 THEN 1 ELSE 0] :
                         <<s, t>> \in {<<r, a[i] - limbOf(b, i) - r.borrow>> :
                                         r \in {diff[i - 1]}}})
        IN bnTrim(diff[Len(a)].out) :
        <<a, b>> \in {<<x, y>>}})

\* x < y
bnLess(x, y) ==
  Only({IF Len(a) # Len(b) THEN Len(a) < Len(b)
        ELSE Only({differ # {}
                   /\ Only({a[top] < b[top] :
                            top \in {CHOOSE i \in differ : \A j \in differ : j <= i}}) :
                   differ \in {{i \in 1..Len(a) : a[i] # b[i]}}}) :
        <<a, b>> \in {<<x, y>>}})

\* x * k, for 0 <= k < 2^15
bnMulSmall(x, k) ==
  Only({LET prod[i \in 0..Len(a)] ==
              IF i = 0 THEN [out |-> <<>>, carry |-> 0]
              ELSE Only({[out |-> Append(s.out, t % Limb), carry |-> t \div Limb] :
                         <<s, t>> \in {<<r, a[i] * c + r.carry>> : r \in {prod[i - 1]}}})
        IN Only({bnTrim(IF s.carry = 0 THEN s.out ELSE Append(s.out, s.carry)) :
                 s \in {prod[Len(a)]}}) :
        <<a, c>> \in {<<x, k>>}})

\* a * 2^(15 * n)
bnShiftLimbs(a, n) ==
  Only({IF v = <<>> THEN <<>> ELSE [i \in 1..n |-> 0] \o v : v \in {a}})

bnMul(x, y) ==
  Only({LET prod[j \in 0..Len(b)] ==
              IF j = 0 THEN <<>>
              ELSE bnAdd(prod[j - 1], bnShiftLimbs(bnMulSmall(a, b[j]), j - 1))
        IN prod[Len(b)] :
        <<a, b>> \in {<<x, y>>}})

\* the number of binary digits of a
bnBitLen(a) ==
  Only({IF v = <<>> THEN 0
        ELSE 15 * (Len(v) - 1)
             + (CHOOSE k \in 1..15 : 2^(k - 1) <= v[Len(v)] /\ v[Len(v)] < 2^k) :
        v \in {a}})

\* a * 2^n
bnShl(a, n) == bnShiftLimbs(bnMulSmall(a, 2^(n % 15)), n \div 15)

\* floor(a / 2^n)
bnShr(a, n) ==
  Only({bnTrim([i \in 1..(Len(v) - q) |->
                  (v[i + q] \div r) + (limbOf(v, i + q + 1) % r) * (Limb \div r)] \o <<>>) :
        <<v, q, r>> \in {<<a, n \div 15, 2^(n % 15)>>}})

\* a mod 2^n
bnLow(a, n) ==
  Only({bnTrim([i \in 1..(q + 1) |->
                  IF i <= q THEN limbOf(v, i) ELSE limbOf(v, i) % r] \o <<>>) :
        <<v, q, r>> \in {<<a, n \div 15, 2^(n % 15)>>}})

\* a is odd
bnOdd(a) == limbOf(a, 1) % 2 = 1

\* the digit q of a quotient: q * b <= r < (q + 1) * b. It lies between the
\* quotients of the top digits of r by the top digit of b plus one and by the
\* top digit of b.
quotientDigit(r, b) ==
  Only({CHOOSE q \in (top \div (b[Len(b)] + 1))..Min(Limb - 1, top \div b[Len(b)]) :
          /\ ~bnLess(r, bnMulSmall(b, q))
          /\ bnLess(r, bnMulSmall(b, q + 1)) :
        top \in {limbOf(r, Len(b) + 1) * Limb + limbOf(r, Len(b))}})

\* floor(x / y) and x mod y, for y other than 0: long division in base 2^15 of
\* x and y scaled by the power of two that brings the top digit of y to 2^14 or
\* more
bnDivMod(x, y) ==
  Only({LET step[i \in 0..Len(a)] ==
              IF i = 0 THEN [out |-> <<>>, rem |-> <<>>]
              ELSE Only({[out |-> <<q>> \o s.out, rem |-> bnSub(r, bnMulSmall(b, q))] :
                         <<s, r, q>> \in
                           {<<t, u, quotientDigit(u, b)>> :
                              <<t, u>> \in {<<p, bnTrim(<<a[Len(a) + 1 - i]>> \o p.rem)>> :
                                              p \in {step[i - 1]}}}})
        IN Only({[quot |-> bnTrim(s.out), rem |-> bnShr(s.rem, shift)] :
                 s \in {step[Len(a)]}}) :
        <<a, b, shift>> \in
          {<<bnShl(x, n), bnShl(y, n), n>> :
             n \in {Only({15 - bnBitLen(<<v[Len(v)]>>) : v \in {y}})}}})

\* A double is a sign, a significand of 53 binary digits and an exponent: the
\* number (neg ? -1 : 1) * m * 2^e; zero has the significand <<>>. The numbers of
\* the pages are far from the subnormal and the infinite range, and the sign of a
\* zero is not kept.
SignificandBits == 53

fpZero == [neg |-> FALSE, m |-> <<>>, e |-> 0]

\* the double nearest to n * 2^e (plus a fraction of 2^e when inexact is TRUE),
\* ties to the even significand
fpRound(neg, n, e, inexact) ==
  Only({IF v = <<>> THEN fpZero
        ELSE IF k <= 0 THEN [neg |-> neg, m |-> bnShl(v, -k), e |-> e + k]
        ELSE Only({IF bnBitLen(m) > SignificandBits
                   THEN [neg |-> neg, m |-> bnShr(m, 1), e |-> e + k + 1]
                   ELSE [neg |-> neg, m |-> m, e |-> e + k] :
                   m \in {Only({IF bnLess(half, low) \/ (low = half /\ (inexact \/ bnOdd(high)))
                                THEN bnAdd(high, <<1>>) ELSE high :
                                <<high, low, half>> \in
                                  {<<bnShr(v, k), bnLow(v, k), bnShl(<<1>>, k - 1)>>}})}}) :
        <<v, k>> \in {<<d, bnBitLen(d) - SignificandBits>> : d \in {n}}})

\* the double of the integer n
fpOfInt(n) == fpRound(n < 0, bnOfInt(IF n < 0 THEN -n ELSE n), 0, FALSE)

fpNeg(x) == Only({IF v.m = <<>> THEN v ELSE [v EXCEPT !.neg = ~v.neg] : v \in {x}})

\* x * y
fpMul(x, y) ==
  Only({fpRound(a.neg # b.neg, bnMul(a.m, b.m), a.e + b.e, FALSE) :
        <<a, b>> \in {<<x, y>>}})

\* x / y, for y other than zero: the quotient of the significands to 57 or 58
\* binary digits, and whether a remainder is left
fpDiv(x, y) ==
  Only({IF a.m = <<>> THEN fpZero
        ELSE Only({fpRound(a.neg # b.neg, d.quot, a.e - b.e - (SignificandBits + 4),
                           d.rem # <<>>) :
                   d \in {bnDivMod(bnShl(a.m, SignificandBits + 4), b.m)}}) :
        <<a, b>> \in {<<x, y>>}})

\* x + y
fpAdd(x, y) ==
  Only({IF a.m = <<>> THEN b
        ELSE IF b.m = <<>> THEN a
        ELSE Only({IF a.neg = b.neg THEN fpRound(a.neg, bnAdd(n, k), e, FALSE)
                   ELSE IF bnLess(n, k) THEN fpRound(b.neg, bnSub(k, n), e, FALSE)
                   ELSE fpRound(a.neg, bnSub(n, k), e, FALSE) :
                   <<n, k, e>> \in {<<bnShl(a.m, a.e - low), bnShl(b.m, b.e - low), low>> :
                                      low \in {Min(a.e, b.e)}}}) :
        <<a, b>> \in {<<x, y>>}})

\* x - y
fpSub(x, y) == fpAdd(x, fpNeg(y))

\* x > 0
fpPositive(x) == Only({v.m # <<>> /\ ~v.neg : v \in {x}})

\* x < y
fpLess(x, y) == fpPositive(fpSub(y, x))

\* Math.min(x, y) and Math.max(x, y)
fpMin(x, y) == Only({IF fpLess(b, a) THEN b ELSE a : <<a, b>> \in {<<x, y>>}})

fpMax(x, y) == Only({IF fpLess(a, b) THEN b ELSE a : <<a, b>> \in {<<x, y>>}})

\* floor(n / 2^k) of the natural number n, as an integer
shiftedInt(n, k) == bnToInt(IF k >= 0 THEN bnShr(n, k) ELSE bnShl(n, -k))

\* Math.floor(x), an integer below 2^31
fpFloor(x) ==
  Only({IF ~v.neg THEN shiftedInt(v.m, -v.e)
        ELSE IF v.e < 0 /\ bnLow(v.m, -v.e) # <<>> THEN -(shiftedInt(v.m, -v.e) + 1)
        ELSE -shiftedInt(v.m, -v.e) :
        v \in {x}})

\* Math.round(x): Math.floor of x + 0.5, computed exactly
fpMathRound(x) ==
  Only({IF v.m = <<>> THEN 0
        ELSE IF v.e >= 0 THEN fpFloor(v)
        ELSE Only({IF ~v.neg THEN shiftedInt(bnAdd(v.m, half), -v.e)
                   ELSE IF ~bnLess(half, v.m) THEN 0
                   ELSE -shiftedInt(bnAdd(bnSub(v.m, half),
                                          bnSub(bnShl(<<1>>, -v.e), <<1>>)), -v.e) :
                   half \in {bnShl(<<1>>, -v.e - 1)}}) :
        v \in {x}})

\* Number(text) of a decimal text with two decimals: the double nearest to n / 100
fpOfHundredths(n) == fpDiv(fpOfInt(n), fpOfInt(100))

\* the digits x.toFixed(2) shows for x >= 0, as a number of hundredths: the
\* integer nearest to 100 * x, the larger of two that are equally near
fpToFixed2(x) ==
  Only({IF v.m = <<>> THEN 0
        ELSE IF v.e >= 0 THEN shiftedInt(bnMulSmall(v.m, 100), -v.e)
        ELSE shiftedInt(bnAdd(bnMulSmall(v.m, 100), bnShl(<<1>>, -v.e - 1)), -v.e) :
        v \in {x}})

(* ------------------------- text of the CATs table ---------------------- *)

\* two decimal digits of n, 0 <= n < 100
twoDigits(n) == <<DigitChars[(n \div 10) + 1], DigitChars[(n % 10) + 1]>>

absOf(n) == IF n < 0 THEN -n ELSE n

\* Number.prototype.toFixed(2) of the number n / 100
toFixed2(n) ==
  (IF n < 0 THEN <<"-">> ELSE <<>>)
    \o natToChars(absOf(n) \div 100) \o <<".">> \o twoDigits(absOf(n) % 100)

\* String(x) of the number n / 100: no trailing zeros, no point for an integer
numberText(n) ==
  LET whole == natToChars(absOf(n) \div 100)
      frac == absOf(n) % 100
  IN (IF n < 0 THEN <<"-">> ELSE <<>>)
       \o whole
       \o (IF frac = 0 THEN <<>>
           ELSE IF frac % 10 = 0 THEN <<".", DigitChars[(frac \div 10) + 1]>>
           ELSE <<".">> \o twoDigits(frac))

\* parseFloat(s) in hundredths, NaN when s does not begin with a number; the
\* texts of the table have at most two decimals and no exponent
parseFloat(s) ==
  LET t == trimStart(s)
      negative == t # <<>> /\ Head(t) = "-"
      u == IF negative THEN Tail(t) ELSE t
      whole == leadingDigits(u)
      rest == SubSeq(u, Len(whole) + 1, Len(u))
      frac == IF rest # <<>> /\ Head(rest) = "." THEN leadingDigits(Tail(rest)) ELSE <<>>
      cents == IF frac = <<>> THEN 0
               ELSE IF Len(frac) = 1 THEN 10 * DigitVal(frac[1])
               ELSE 10 * DigitVal(frac[1]) + DigitVal(frac[2])
      value == 100 * digitsValue(whole) + cents
  IN IF whole = <<>> /\ frac = <<>> THEN NaN
     ELSE Num(IF negative THEN -value ELSE value)

\* parseFloat(s) || 0
parseFloatOrZero(s) == IF parseFloat(s).t = "num" THEN parseFloat(s).n ELSE 0

RECURSIVE splitOn(_, _)
\* s.split(sep) for a separator of one character
splitOn(s, sep) ==
  IF \A i \in 1..Len(s) : s[i] # sep THEN <<s>>
  ELSE LET at == CHOOSE i \in 1..Len(s) : s[i] = sep /\ \A j \in 1..(i - 1) : s[j] # sep
       IN <<SubSeq(s, 1, at - 1)>> \o splitOn(SubSeq(s, at + 1, Len(s)), sep)

\* s.replace(',', ''): the first comma is taken out
dropComma(s) ==
  IF \A i \in 1..Len(s) : s[i] # "," THEN s
  ELSE LET at == CHOOSE i \in 1..Len(s) : s[i] = "," /\ \A j \in 1..(i - 1) : s[j] # ","
       IN SubSeq(s, 1, at - 1) \o SubSeq(s, at + 1, Len(s))

RECURSIVE daysBeforeYear(_)
\* the day number of January 1 of year y
daysBeforeYear(y) ==
  IF y = 2025 THEN 0
  ELSE IF y > 2025 THEN daysBeforeYear(y - 1) + daysInYear(y - 1)
  ELSE daysBeforeYear(y + 1) - daysInYear(y)

RECURSIVE daysBeforeMonth(_, _)
daysBeforeMonth(y, m) == IF m = 0 THEN 0 ELSE daysBeforeMonth(y, m - 1) + daysInMonth(y, m - 1)

\* new Date(year, month, day): the day number of local midnight; a year of 0 to
\* 99 is a year of the 1900s
dayOfCivil(year, month, day) ==
  LET y == IF year >= 0 /\ year <= 99 THEN 1900 + year ELSE year
  IN daysBeforeYear(y) + daysBeforeMonth(y, month) + day - 1

\* parseDisplayDate: "null" for a blank string, "date" with the day number, or
\* "invalid" for an Invalid Date (a month name not in the table, a day or a year
\* that is not a number); strings of fewer than three words, which go to
\* new Date(str), are not among the date texts of data rows and count as invalid
parseDisplayDate(str) ==
  LET parts == splitOn(str, " ")
      mon == dropComma(parts[1])
      day == parseInt(dropComma(parts[2]))
      year == parseInt(parts[3])
      months == {i \in 1..12 : Chars(monthNames[i]) = mon}
  IN IF str = <<>> THEN [kind |-> "null", day |-> 0]
     ELSE IF Len(parts) < 3 \/ months = {} \/ day.t # "num" \/ year.t # "num"
     THEN [kind |-> "invalid", day |-> 0]
     ELSE [kind |-> "date",
           day |-> dayOfCivil(year.n, (CHOOSE i \in months : TRUE) - 1, day.n)]

(* --------------------------- prefillEditableRow ------------------------ *)

\* A row of the CATs table: the class of the tr, the text of td1 .. td7 and the
\* dataset of the tr (<<>> for an attribute that is not set). cells[4] of an
\* editable-row is the value of the input in td4.
NoDataset == [originalDrmis |-> <<>>, originalDrmisHours |-> <<>>, replaced |-> FALSE]

\* x || '' as text
textOf(v) == IF Truthy(v) THEN ToStr(v) ELSE <<>>

\* hoursText of an entry
hoursTextOf(hours) == IF hours.t = "num" THEN toFixed2(hours.n) ELSE <<>>

\* the tr initCatsEditsPage makes for an entry of catsEditsData
rowOfEntry(entry) ==
  [rowType |-> entry.row_type,
   cells |-> <<textOf(entry.pers_no), Chars(entry.date), entry.work_order, entry.act,
               textOf(entry.aa_code), hoursTextOf(entry.hours),
               Chars(entry.discrepancy_reason)>>,
   dataset |->
     IF entry.row_type = "data-row"
     THEN [originalDrmis |-> IF entry.original_drmis_code # <<>>
                             THEN <<entry.original_drmis_code>> ELSE <<>>,
           originalDrmisHours |-> <<numberText(entry.original_drmis_hours)>>,
           replaced |-> entry.replaced]
     ELSE NoDataset]

\* preRow: the editable-row with nothing in it
blankEditableRow ==
  [rowType |-> "editable-row", cells |-> [i \in 1..7 |-> <<>>], dataset |-> NoDataset]

\* a variant that filters on the code of the data row only
filteredOfTargetOnly(candidates, leaveCode, originalDrmis, isReplaced) ==
  SelectSeq([i \in 1..Len(candidates) |-> i],
            LAMBDA i : digitsOnly(candidates[i].aatype) # digitsOnly(leaveCode))

\* the indexes of the candidates that pass the filter, in order
filteredOf(candidates, leaveCode, originalDrmis, isReplaced) ==
  LET passes(c) ==
        IF isReplaced /\ originalDrmis # <<>>
        THEN /\ digitsOnly(c.aatype) # digitsOnly(leaveCode)
             /\ digitsOnly(c.aatype) # digitsOnly(originalDrmis)
        ELSE digitsOnly(c.aatype) # digitsOnly(leaveCode)
  IN SelectSeq([i \in 1..Len(candidates) |-> i], LAMBDA i : passes(candidates[i]))

\* the hours of the editable rows between the data row and the next total-row,
\* added up from the first
existingEditableHours(following) ==
  Only({LET upTo[i \in 0..Len(rows)] ==
              IF i = 0 THEN [sum |-> fpZero, open |-> TRUE]
              ELSE Only({IF ~s.open \/ rows[i].rowType = "total-row"
                         THEN [s EXCEPT !.open = FALSE]
                         ELSE IF rows[i].rowType = "editable-row"
                         THEN [s EXCEPT !.sum = fpAdd(s.sum, fpOfHundredths(
                                                  parseFloatOrZero(trim(rows[i].cells[6]))))]
                         ELSE s :
                         s \in {upTo[i - 1]}})
        IN upTo[Len(rows)].sum :
        rows \in {following}})

\* residuals: the hours of the filtered candidates, Number(c.hours) || 0
residualsOf(candidates, filtered) ==
  [i \in 1..Len(filtered) |-> fpOfHundredths(candidates[filtered[i]].hours)] \o <<>>

\* a variant that takes the whole amount from the first residual
takeFromFirst(hours, amount) ==
  IF hours = <<>> \/ ~fpPositive(amount) THEN hours
  ELSE [hours EXCEPT ![1] = fpMax(fpZero, fpSub(hours[1], amount))]

\* for (i = 0; i < length && amount > 0; i++): the residual gives up
\* Math.min(hours, amount) and keeps Math.max(0, hours - take)
takeFrom(hours, amount) ==
  Only({LET upTo[i \in 0..Len(start.hours)] ==
              IF i = 0 THEN start
              ELSE Only({IF ~fpPositive(s.amount) THEN s
                         ELSE Only({[hours |-> [s.hours EXCEPT
                                                  ![i] = fpMax(fpZero, fpSub(s.hours[i], take))],
                                     amount |-> fpSub(s.amount, take)] :
                                    take \in {fpMin(s.hours[i], s.amount)}}) :
                         s \in {upTo[i - 1]}})
        IN upTo[Len(start.hours)].hours :
        start \in {[hours |-> hours, amount |-> amount]}})

\* residuals.reduce((s, r) => s + (Number(r.hours) || 0), 0)
sumOf(hours) ==
  Only({LET upTo[i \in 0..Len(h)] == IF i = 0 THEN fpZero ELSE fpAdd(upTo[i - 1], h[i])
        IN upTo[Len(h)] :
        h \in {hours}})

\* Math.floor(x * 100) / 100
floorTo2(x) == fpDiv(fpOfInt(fpFloor(fpMul(x, fpOfInt(100)))), fpOfInt(100))

\* Math.round(x * 100) / 100
roundTo2(x) == fpDiv(fpOfInt(fpMathRound(fpMul(x, fpOfInt(100)))), fpOfInt(100))

\* share of residuals[i]: Math.floor(((hours / sumAvail) * toAdd) * 100) / 100
shareOf(hours, sumAvail, toAdd) == floorTo2(fpMul(fpDiv(hours, sumAvail), toAdd))

\* the Oracle-removed branch: to each residual its share of toAdd, the remainder
\* (when above 0) to the first; all of toAdd to the first when the hours sum to
\* 0 or less
reallocate(hours, toAdd) ==
  Only({IF fpPositive(sumAvail)
        THEN LET upTo[i \in 0..Len(h)] ==
                   IF i = 0 THEN [hours |-> h, allocated |-> fpZero]
                   ELSE Only({[hours |-> [s.hours EXCEPT ![i] = fpAdd(s.hours[i], share)],
                               allocated |-> fpAdd(s.allocated, share)] :
                              <<s, share>> \in {<<r, shareOf(r.hours[i], sumAvail, add)>> :
                                                  r \in {upTo[i - 1]}}})
             IN Only({IF fpPositive(remainder)
                      THEN [s.hours EXCEPT ![1] = fpAdd(s.hours[1], remainder)]
                      ELSE s.hours :
                      <<s, remainder>> \in {<<r, roundTo2(fpSub(add, r.allocated))>> :
                                              r \in {upTo[Len(h)]}}})
        ELSE [h EXCEPT ![1] = fpAdd(h[1], add)] :
        <<h, add, sumAvail>> \in {<<v, toAdd, sumOf(v)>> : v \in {hours}}})

\* the residuals of a call that gets as far as the pick: the branch taken, the
\* hours after existingEditableHours is consumed, the amount added or
\* subtracted, and the hours when the pick is made
residualHours(candidates, filtered, existing, leaveHours, originalDrmisHours, isReplaced) ==
  Only({IF ~isReplaced /\ fpPositive(original) /\ leave = fpZero
        THEN [isOracleRemoved |-> TRUE, before |-> before, amount |-> original,
              hours |-> reallocate(before, original)]
        ELSE Only({[isOracleRemoved |-> FALSE, before |-> before, amount |-> remainingLeave,
                    hours |-> takeFrom(before, remainingLeave)] :
                   remainingLeave \in {IF isReplaced THEN fpZero
                                       ELSE fpMax(fpZero, fpSub(leave, consumed))}}) :
        <<before, consumed, leave, original>> \in
          {<<takeFrom(residualsOf(candidates, filtered), e), e,
             fpOfHundredths(leaveHours), fpOfHundredths(originalDrmisHours)>> :
             e \in {existing}}})

\* what a call leaves of its residuals when it does not get as far as the pick
NoResiduals == [isOracleRemoved |-> FALSE, before |-> <<>>, amount |-> fpZero, hours |-> <<>>]

\* a variant in which the residuals are the candidates themselves, not copies
candidatesAfterShared(candidates, filtered, hours) ==
  [i \in 1..Len(candidates) |->
     IF \E j \in 1..Len(filtered) : filtered[j] = i
     THEN [candidates[i] EXCEPT
             !.hours = fpToFixed2(fpMax(fpZero,
                                        hours[CHOOSE j \in 1..Len(filtered) : filtered[j] = i]))]
     ELSE candidates[i]]

\* the array of the lookup after the call: filtered.map(c => ({...})) makes new
\* objects for the residuals, so the hours written go to none of its entries
candidatesAfter(candidates, filtered, hours) == candidates

\* lookup with the array of mapKey replaced
lookupWith(map, mapKey, entries) ==
  [i \in 1..Len(map) |-> IF map[i].key = mapKey THEN [map[i] EXCEPT !.entries = entries]
                         ELSE map[i]]

\* prefillEditableRow(newRow, dataRow), with the rows that follow dataRow in its
\* tbody and the Map drmisLookup: what it returns (filled), whether it throws
\* (toISOString of an Invalid Date), newRow, dataRow and the Map afterwards, and
\* its locals candidates, filtered (as indexes of candidates) and residuals
prefillEditableRow(newRow, dataRow, following, lookup) ==
  LET failed == [filled |-> FALSE, threw |-> FALSE, newRow |-> newRow,
                 dataRow |-> dataRow, lookup |-> lookup,
                 candidates |-> <<>>, filtered |-> <<>>, residuals |-> NoResiduals]
      persNo == trim(dataRow.cells[1])
      leaveCode == trim(dataRow.cells[5])
      leaveHours == parseFloatOrZero(trim(dataRow.cells[6]))
      originalDrmis == IF dataRow.dataset.originalDrmis = <<>> THEN <<>>
                       ELSE trim(dataRow.dataset.originalDrmis[1])
      isReplaced == dataRow.dataset.replaced
      originalDrmisHours ==
        IF dataRow.dataset.originalDrmisHours = <<>> THEN 0
        ELSE parseFloatOrZero(dataRow.dataset.originalDrmisHours[1])
      filledWith(key, candidates, filtered, residuals) ==
        LET hours == residuals.hours
            picks == {i \in 1..Len(hours) : fpPositive(hours[i])}
            first == CHOOSE i \in picks : \A j \in picks : i <= j
            pick == candidates[filtered[first]]
            after == lookupWith(lookup, key, candidatesAfter(candidates, filtered, hours))
        IN IF picks = {}
           THEN [failed EXCEPT !.lookup = after, !.candidates = candidates,
                               !.filtered = filtered, !.residuals = residuals]
           ELSE [filled |-> TRUE, threw |-> FALSE,
                 newRow |-> [newRow EXCEPT
                               !.cells[3] = pick.recOrder,
                               !.cells[4] = trim(pick.act),
                               !.cells[5] = pick.aatype,
                               !.cells[6] = toFixed2(fpToFixed2(hours[first]))],
                 dataRow |-> dataRow, lookup |-> after,
                 candidates |-> candidates, filtered |-> filtered,
                 residuals |-> residuals]
      withFiltered(key, candidates, filtered) ==
        IF filtered = <<>> THEN [failed EXCEPT !.candidates = candidates]
        ELSE Only({filledWith(key, candidates, filtered, residuals) :
                   residuals \in {residualHours(candidates, filtered,
                                                existingEditableHours(following), leaveHours,
                                                originalDrmisHours, isReplaced)}})
      withCandidates(key, candidates) ==
        IF candidates = <<>> THEN failed
        ELSE Only({withFiltered(key, candidates, filtered) :
                   filtered \in {filteredOf(candidates, leaveCode, originalDrmis, isReplaced)}})
      withDate(dateObj) ==
        IF dateObj.kind = "null" THEN failed
        ELSE IF dateObj.kind = "invalid" THEN [failed EXCEPT !.threw = TRUE]
        ELSE Only({withCandidates(key, candidates) :
                   <<key, candidates>> \in {<<k, lookupGet(lookup, k)>> :
                                              k \in {<<toISODate(dateObj.day), persNo>>}}})
  IN IF lookup = <<>> THEN failed
     ELSE Only({withDate(dateObj) : dateObj \in {parseDisplayDate(trim(dataRow.cells[2]))}})

\* the sum updateTotals shows in the total-row at index t: the hours of the rows
\* above it, back to the data-row
RECURSIVE sumAbove(_, _)
sumAbove(rows, i) ==
  IF i < 1 THEN 0
  ELSE LET n == parseFloat(trim(rows[i].cells[6]))
           own == IF n.t = "num" THEN n.n ELSE 0
       IN IF rows[i].rowType = "data-row" THEN own ELSE own + sumAbove(rows, i - 1)

\* updateTotals over the rows of the table in the document (the text of the
\* totals; the classes and the alert are not modelled)
updateTotals(rows) ==
  [t \in 1..Len(rows) |->
     IF rows[t].rowType = "total-row"
     THEN [rows[t] EXCEPT !.cells[6] = toFixed2(sumAbove(rows, t - 1))]
     ELSE rows[t]]

RECURSIVE buildCatsRows(_, _, _, _)
\* catsEditsData.forEach of initCatsEditsPage: the rows of tbody, the Map and the
\* outcomes of the calls of prefillEditableRow. A data row is the last row of
\* tbody when it is passed to prefillEditableRow; tbody is not in the document
\* yet, so the calls of updateTotals inside the loop find no total-row.
buildCatsRows(entries, rows, lookup, calls) ==
  IF entries = <<>> THEN [rows |-> rows, lookup |-> lookup, calls |-> calls]
  ELSE LET withCall(tr, out) ==
             Only({buildCatsRows(Tail(entries), tbody.rows, out.lookup, tbody.calls) :
                   tbody \in
                     {[rows |-> rows \o <<out.dataRow>>
                                     \o (IF out.filled THEN <<out.newRow>> ELSE <<>>),
                       calls |-> Append(calls, [filled |-> out.filled, threw |-> out.threw,
                                                newRow |-> out.newRow, dataRow |-> tr,
                                                candidates |-> out.candidates,
                                                filtered |-> out.filtered,
                                                residuals |-> out.residuals])]}})
           withRow(tr) ==
             IF tr.rowType = "data-row"
             THEN Only({withCall(tr, out) :
                        out \in {prefillEditableRow(blankEditableRow, tr, <<>>, lookup)}})
             ELSE Only({buildCatsRows(Tail(entries), tbody, lookup, calls) :
                        tbody \in {Append(rows, tr)}})
       IN Only({withRow(tr) : tr \in {rowOfEntry(Head(entries))}})

\* initCatsEditsPage: the table, after the final updateTotals
initCatsEditsPage(entries, lookup) ==
  Only({[built EXCEPT !.rows = updateTotals(built.rows)] :
        built \in {buildCatsRows(entries, <<>>, lookup, <<>>)}})

(* ------------------------------- bounds -------------------------------- *)

\* longest DRMIS and Oracle record lists of a loaded file
MaxDrmisRows == 2
MaxOracleRows == 2

\* the start days of the Oracle records of the expansion runs: day 100 is Friday
\* 2025-04-11; the window holds two weekends and the holiday of 2025-04-18
FirstStartDay == 100
LastStartDay == 113

\* the largest Oracle hours of the expansion runs, in quarter hours
MaxQuarterHours == 100

\* the most records the step-by-step loop keeps
MaxPushed == 5

\* the most data rows of a sheet, and the most blank rows and blank columns put
\* before its table (besides a whole scan of blank rows)
MaxDataRows == 3
MaxBlankRows == 1
MaxBlankCols == 1

\* the most rows of a DRMIS file with work entries
MaxPrefillRows == 3

(* ------------------------------- inputs -------------------------------- *)

c110 == <<"1", "1", "0">>
c120 == <<"1", "2", "0">>
c0110 == <<"0", "1", "1", "0">>
c1110 == <<"1", "1", "1", "0">>
c1120 == <<"1", "1", "2", "0">>
c3010 == <<"3", "0", "1", "0">>
cVAC == <<"V", "A", "C">>
cNA == <<"N", "/", "A">>
cDash == <<"-">>
p7 == <<"7">>
p07 == <<"0", "7">>

\* a native Date cell of day d at 09:30, and the serial-number cell of the same
\* local day (a serial is read as UTC midnight, which is the evening before in
\* local time, hence the serial of the next day)
nativeDate(d) == DateVal(d * 1440 + 570)
serialDate(d) == Num(ExcelSerialOf2025 + d + 1)

\* Friday 2025-04-18, the holiday inside the window of start days, the Thursday
\* before it (2025-04-17) and the Monday after it (2025-04-21)
dayB == CHOOSE d \in holidays2025 : FirstStartDay <= d /\ d <= LastStartDay + 1
dayA == dayB - 1
dayC == dayB + 3

drmisRow(pers, date, hours, atype) ==
  [pers |-> pers, date |-> date, hours |-> hours, atype |-> atype]

oracleRow(fromDate, hours, leaveCode) ==
  [fromDate |-> fromDate, hours |-> hours, leaveCode |-> leaveCode]

\* the DRMIS rows the load action draws from
DrmisRowPool ==
  { drmisRow(Str(p7), nativeDate(dayA), Num(425), Str(c1110)),
    drmisRow(Str(p07), serialDate(dayA), Num(800), Num(1120)),
    drmisRow(Null, nativeDate(dayB), Null, Str(cDash)),
    drmisRow(Str(p7), nativeDate(dayC), Num(800), Str(c1110)) }

\* the Oracle rows the load action draws from
OracleRowPool ==
  { oracleRow(serialDate(dayA), Num(425), Num(110)),
    oracleRow(nativeDate(dayA), Num(800), Str(c120)),
    oracleRow(nativeDate(dayB), Num(2000), Str(c110)),
    oracleRow(nativeDate(dayC), Null, Null) }

\* the most DRMIS rows of a file of duplicates
MaxDuplicates == 3

\* DRMIS rows of one day, three of them of one employee
DuplicatePool ==
  { drmisRow(Str(p7), nativeDate(dayA), Num(425), Str(c1110)),
    drmisRow(Str(p7), serialDate(dayA), Num(800), Num(1120)),
    drmisRow(Str(p7), nativeDate(dayA), Null, Str(cDash)),
    drmisRow(Str(p07), nativeDate(dayA), Num(800), Str(c1110)) }

SeqsUpTo(S, n) == UNION {[1..k -> S] : k \in 0..n}

\* the headers of the two exports
DrmisHeaders == <<Chars("Pers No"), Chars("Date"), Chars("Hours"), Chars("A/A Type")>>
OracleHeaders == <<Chars("From Date"), Chars("Hours Recorded"), Chars("Leave Code")>>

\* header rows in which each column has its name, another spelling that is
\* recognised, or a name that is not
DrmisHeaderVariants ==
  { <<pers, date, hours, atype>> :
      pers \in {Chars("Pers No"), Chars(" PERS.NO"), Chars("Employee")},
      date \in {Chars("Date"), Chars("date "), Chars("Start Date")},
      hours \in {Chars("Hours"), Chars("Hours Recorded")},
      atype \in {Chars("A/A Type"), Chars("A/A Type Text"), Chars("Leave Code")} }

OracleHeaderVariants ==
  { <<from, hours, code>> :
      from \in {Chars("From Date"), Chars("Date"), Chars("From")},
      hours \in {Chars("Hours Recorded"), Chars("HOURS"), Chars("Hrs")},
      code \in {Chars("Leave Code"), Chars("leave_code"), Chars("Code")} }

\* the files the change handlers draw from: the export's headers over the rows
\* of the pool, and one file whose header row lacks a column
DrmisFiles ==
  { [headers |-> DrmisHeaders, rows |-> rows] : rows \in SeqsUpTo(DrmisRowPool, MaxDrmisRows) }
  \cup { [headers |-> <<Chars("Pers No"), Chars("Date"), Chars("Hours"), Chars("A/A Type Text")>>,
          rows |-> <<CHOOSE r \in DrmisRowPool : r.pers = Str(p7) /\ r.hours = Num(425)>>] }

OracleFiles ==
  { [headers |-> OracleHeaders, rows |-> rows] : rows \in SeqsUpTo(OracleRowPool, MaxOracleRows) }
  \cup { [headers |-> <<Chars("Date"), Chars("Hrs"), Chars("Leave Code")>>,
          rows |-> <<CHOOSE r \in OracleRowPool : r.hours = Num(800)>>] }

Whitelists == {{}, {c1110}}

\* the allow-lists of the single-row runs: one more, which holds "0", a code
\* that starts with 30 and an excluded Oracle code
c1200 == <<"1", "2", "0", "0">>
CellWhitelists == Whitelists \cup {{<<"0">>, c1110, c3010, c1200}}

\* single rows over a product of cell values, for the row-level properties
DrmisCells ==
  { drmisRow(pers, nativeDate(dayA), hours, atype) :
      pers \in {Str(p7), Null}, hours \in {Num(0), Num(425), Num(800)},
      atype \in {Null, Str(c1110), Str(c0110), Str(c1120), Str(cVAC)} }
  \cup { drmisRow(Str(p7), Null, Num(800), Str(c1110)),
         drmisRow(Str(p7), nativeDate(dayA), Num(425), Str(c3010)) }

OracleCells ==
  { oracleRow(nativeDate(d), hours, code) :
      d \in {dayA, dayC}, hours \in {Num(0), Num(425), Num(800), Num(2000)},
      code \in {Null, Num(110), Num(200), Str(c1110), Str(c120), Str(cNA), Str(c0110)} }
  \cup { oracleRow(nativeDate(dayA), Num(800), Str(code)) :
           code \in {cDash, Chars("  "), Chars("12"), Chars("L-110 "), Chars("12345"), cVAC} }

\* single Oracle rows for the expansion runs
OracleHoursCells ==
  {Num(25 * q) : q \in 0..MaxQuarterHours} \cup {Num(0 - 800), Null, Str(cNA)}

ExpansionCells ==
  { oracleRow(nativeDate(d), hours, code) :
      d \in FirstStartDay..LastStartDay, hours \in OracleHoursCells,
      code \in {Num(110), Str(cDash)} }

\* a DRMIS export with the work order and the activity of each row
PrefillHeaders ==
  <<Chars("Pers No"), Chars("Date"), Chars("Hours"), Chars("A/A Type"),
    Chars("Rec. order"), Chars("Act")>>

workRow(pers, date, hours, atype, recOrder, act) ==
  [pers |-> pers, date |-> date, hours |-> hours, atype |-> atype,
   recOrder |-> recOrder, act |-> act]

\* a leave row and two work rows of the employee on dayA, and a leave row on dayC
PrefillRowPool ==
  { workRow(Str(p7), nativeDate(dayA), Num(425), Str(c1110), Null, Null),
    workRow(Str(p7), nativeDate(dayA), Num(375), Null, Str(Chars("WO-1")), Str(Chars("0010 "))),
    workRow(Str(p7), serialDate(dayA), Num(800), Str(cDash), Num(4711), Num(20)),
    workRow(Str(p7), nativeDate(dayC), Num(600), Str(c1110), Str(Chars("WO-3")), Null) }

PrefillOracleRows ==
  { oracleRow(nativeDate(dayA), Num(425), Num(110)),
    oracleRow(nativeDate(dayA), Num(200), Str(c120)),
    oracleRow(nativeDate(dayA), Null, Null) }

\* One day of one employee, for the hours prefillEditableRow hands out: a leave
\* row or none, one or two work rows, and an Oracle record of the day or none
AllocationLeaveHours == {75, 400}
AllocationFirstHours == {50, 300, 770, 0, -500}
AllocationSecondHours == {75, 500, 30}

AllocationLeaveRows ==
  {<<>>} \cup {<<workRow(Str(p7), nativeDate(dayA), Num(h), Str(c1110), Null, Null)>> :
                 h \in AllocationLeaveHours}

AllocationWorkRows ==
  LET first(h) == workRow(Str(p7), nativeDate(dayA), Num(h), Str(cDash),
                          Str(Chars("WO-1")), Str(Chars("0010")))
      second(h) == workRow(Str(p7), nativeDate(dayA), Num(h), Null,
                           Str(Chars("WO-2")), Str(Chars("0020")))
  IN {<<first(h)>> : h \in AllocationFirstHours}
     \cup {<<first(h), second(k)>> : h \in AllocationFirstHours, k \in AllocationSecondHours}

AllocationOracleRows ==
  { <<>>,
    <<oracleRow(nativeDate(dayA), Num(800), Num(110))>>,
    <<oracleRow(nativeDate(dayA), Num(200), Str(c120))>> }

\* DRMIS exports with the header of the hours in two spellings, and rows that
\* extractDrmisData keeps, drops for their code, or passes over for their date
LookupHeaders == {PrefillHeaders, [PrefillHeaders EXCEPT ![3] = Chars("HOURS")]}

MaxLookupRows == 2

LookupRowPool ==
  { workRow(Str(p7), nativeDate(dayA), Num(425), Str(c1110), Null, Null),
    workRow(Str(p7), nativeDate(dayA), Num(375), Str(cDash), Str(Chars("WO-1")),
            Str(Chars("0010 "))),
    workRow(Num(7), serialDate(dayA), Num(800), Str(c3010), Num(4711), Num(20)),
    workRow(Str(p07), nativeDate(dayC), Num(600), Num(1120), Str(Chars("WO-3")), Null),
    workRow(Str(p7), Null, Num(100), Null, Str(Chars("WO-4")), Null) }

\* the keys of the lookup for each header row of the inputs
drmisLookupKeys ==
  [h \in DrmisHeaderVariants \cup {f.headers : f \in DrmisFiles} \cup LookupHeaders |->
     lookupKeys(h)]

\* a variant of the Map of a loaded file without drmisLookup = new Map(): the
\* entries are pushed to the Map that is there
loadedLookupKept(headers, rowsObjects) ==
  IF rowsObjects = <<>> THEN drmisLookup
  ELSE lookupOfRows(drmisLookup, rowsObjects, headers, lookupKeys(headers))

\* the Map the change handler has built for a loaded file
loadedLookup(headers, rowsObjects) ==
  IF rowsObjects = <<>> THEN <<>>
  ELSE lookupOfRows(<<>>, rowsObjects, headers, drmisLookupKeys[headers])

drmisFileLookup == [f \in DrmisFiles |-> loadedLookup(f.headers, f.rows)]

\* the missing columns of each header row of the files
drmisFileMissing == [h \in {f.headers : f \in DrmisFiles} |-> drmisMissing(h)]
oracleFileMissing == [h \in {f.headers : f \in OracleFiles} |-> oracleMissing(h)]

\* the records the step-by-step loop is run for: more than 8 hours, at most
\* MaxQuarterHours quarter hours or 2^AbsorbExp hours
LoopRecords ==
  { [Date |-> d, hours |-> h, OracleLeaveCode |-> c1110] :
      d \in FirstStartDay..LastStartDay,
      h \in {exact(25 * q) : q \in 33..MaxQuarterHours} \cup {pow2(AbsorbExp)} }

\* sheets: a title row or none, a header row, data rows
SheetTitles == {<<>>, << <<Str(Chars("Leave export"))>> >>}

SheetHeaderRows ==
  { <<Str(Chars("Pers No")), Str(Chars("Date")), Str(Chars(" Hours "))>>,
    <<Str(Chars("Employee")), Str(Chars("Day")), Str(Chars("Total"))>> }

SheetDataRows ==
  { <<Num(7), Str(Chars("10-Apr")), Num(800)>>,
    <<Null, Str(Chars("11-Apr")), Str(Chars(" "))>>,
    <<Null, Null, Null>> }

\* r rows of blank cells and c columns of blank cells put before the grid
blankCells(n) == [i \in 1..n |-> Null]

paddedGrid(grid, r, c) ==
  LET width == c + Len(grid[1])
  IN [i \in 1..r |-> blankCells(width)] \o [i \in 1..Len(grid) |-> blankCells(c) \o grid[i]]

SheetGrids ==
  { paddedGrid(title \o <<header>> \o data, r, c) :
      title \in SheetTitles, header \in SheetHeaderRows,
      data \in SeqsUpTo(SheetDataRows, MaxDataRows),
      r \in 0..MaxBlankRows \cup {maxScanRows}, c \in 0..MaxBlankCols }

(* ---------------------------- state machine ---------------------------- *)

NoResults ==
  /\ drmisExtracted = <<>>
  /\ oracleOut = <<>>
  /\ oracleExtracted = <<>>
  /\ mergeMap = <<>>
  /\ merged = <<>>
  /\ mismatches = <<>>
  /\ catsEditsData = <<>>

\* the expansion loop is not being stepped
LoopIdle ==
  /\ loopRow = <<>>
  /\ loopRemaining = exact(0)
  /\ loopDate = 0
  /\ loopExpanded = <<>>

\* no sheet is being read
SheetIdle ==
  /\ sheetGrid = <<>>
  /\ sheetTable = sheetRowsToObjects(<<>>)

\* the CATs edits page has not been built
TableIdle ==
  /\ catsTable = <<>>
  /\ prefillCalls = <<>>

OtherIdle == LoopIdle /\ SheetIdle /\ TableIdle

\* the reconciliation page with nothing loaded
PipelineIdle ==
  /\ leaveCodeWhitelist = {}
  /\ drmisRows = <<>>
  /\ drmisHeaders = <<>>
  /\ oracleRows = <<>>
  /\ oracleHeaders = <<>>
  /\ mappingError = <<>>
  /\ drmisLookup = <<>>
  /\ NoResults

\* a file is <<>> when none is loaded and <<rows>> when one is
Init ==
  /\ PipelineIdle
  /\ pc = "idle"
  /\ OtherIdle

results == <<drmisExtracted, oracleOut, oracleExtracted, mergeMap, merged, mismatches,
             catsEditsData>>

drmisFile == <<drmisRows, drmisHeaders>>
oracleFile == <<oracleRows, oracleHeaders>>

\* loadLeaveCodeWhitelist: the allow-list file is found, or is not
LoadLeaveCodeWhitelist ==
  /\ pc = "idle"
  /\ \E wl \in Whitelists : leaveCodeWhitelist' = wl
  /\ UNCHANGED <<drmisFile, oracleFile, mappingError, results, drmisLookup, pc, otherVars>>

\* showColumnMappingDialogClient for the Error err, when there is one
showMapping(err) ==
  IF err = <<>> THEN UNCHANGED <<mappingError, pc>>
  ELSE mappingError' = err /\ pc' = "mapping"

\* the change handler of the DRMIS file input: the file is kept, and the
\* mapping dialog is shown when the extraction throws
DrmisChange ==
  /\ pc = "idle"
  /\ \E f \in DrmisFiles :
       /\ drmisRows' = <<f.rows>>
       /\ drmisHeaders' = f.headers
       /\ drmisLookup' = drmisFileLookup[f]
       /\ showMapping(thrown("DRMIS", drmisFileMissing[f.headers], f.headers, f.rows))
  /\ UNCHANGED <<leaveCodeWhitelist, oracleFile, results, otherVars>>

\* the change handler of the Oracle file input
OracleChange ==
  /\ pc = "idle"
  /\ \E f \in OracleFiles :
       /\ oracleRows' = <<f.rows>>
       /\ oracleHeaders' = f.headers
       /\ showMapping(thrown("ORACLE", oracleFileMissing[f.headers], f.headers, f.rows))
  /\ UNCHANGED <<leaveCodeWhitelist, drmisFile, results, drmisLookup, otherVars>>

\* the submit handler: extract both files (an Error of an extractor shows the
\* mapping dialog and ends the handler), reconcile, generate the CATs edits
Submit ==
  /\ pc = "idle"
  /\ drmisRows # <<>>
  /\ oracleRows # <<>>
  /\ LET wl == leaveCodeWhitelist
         drErr == drmisError(drmisHeaders, drmisRows[1])
         orErr == oracleError(oracleHeaders, oracleRows[1])
         dr == extractDrmisData(drmisRows[1], wl)
         out == oracleOutOf(oracleRows[1], wl)
         orc == expandOracleEntries(out)
         map == mergeMapOf(dr, orc)
         mg == mergedOf(map, defaultPersOf(dr))
         mm == mismatchesOf(mg, wl)
     IN IF drErr # <<>> \/ orErr # <<>>
        THEN /\ showMapping(IF drErr # <<>> THEN drErr ELSE orErr)
             /\ UNCHANGED results
        ELSE /\ drmisExtracted' = dr
             /\ oracleOut' = out
             /\ oracleExtracted' = orc
             /\ mergeMap' = map
             /\ merged' = mg
             /\ mismatches' = mm
             /\ catsEditsData' = generateCatsEdits(mm)
             /\ pc' = "done"
             /\ UNCHANGED mappingError
  /\ UNCHANGED <<leaveCodeWhitelist, drmisFile, oracleFile, drmisLookup, otherVars>>

\* the close and cancel buttons of the mapping dialog
MappingClose ==
  /\ pc = "mapping"
  /\ mappingError' = <<>>
  /\ pc' = "idle"
  /\ UNCHANGED <<leaveCodeWhitelist, drmisFile, oracleFile, results, drmisLookup, otherVars>>

\* clearClientSideData: the reset buttons
ClearClientSideData ==
  /\ pc = "done"
  /\ drmisRows' = <<>>
  /\ drmisHeaders' = <<>>
  /\ oracleRows' = <<>>
  /\ oracleHeaders' = <<>>
  /\ drmisExtracted' = <<>>
  /\ oracleOut' = <<>>
  /\ oracleExtracted' = <<>>
  /\ mergeMap' = <<>>
  /\ merged' = <<>>
  /\ mismatches' = <<>>
  /\ catsEditsData' = <<>>
  /\ pc' = "idle"
  /\ UNCHANGED <<leaveCodeWhitelist, mappingError, drmisLookup, otherVars>>

Next ==
  \/ LoadLeaveCodeWhitelist
  \/ DrmisChange
  \/ OracleChange
  \/ Submit
  \/ MappingClose
  \/ ClearClientSideData

Spec == Init /\ [][Next]_vars

\* one run of the pipeline over single rows drawn from the cell products
InitCells ==
  /\ leaveCodeWhitelist \in CellWhitelists
  /\ drmisRows \in {<<rows>> : rows \in SeqsUpTo(DrmisCells, 1)}
  /\ drmisHeaders = DrmisHeaders
  /\ oracleRows \in {<<rows>> : rows \in SeqsUpTo(OracleCells, 1)}
  /\ oracleHeaders = OracleHeaders
  /\ mappingError = <<>>
  /\ NoResults
  /\ pc = "idle"
  /\ drmisLookup = loadedLookup(drmisHeaders, drmisRows[1])
  /\ OtherIdle

SpecCells == InitCells /\ [][Submit]_vars

\* one run of the pipeline over a single Oracle row, no DRMIS rows, no allow-list
InitExpansion ==
  /\ leaveCodeWhitelist = {}
  /\ drmisRows = << <<>> >>
  /\ drmisHeaders = DrmisHeaders
  /\ oracleRows \in {<< <<row>> >> : row \in ExpansionCells}
  /\ oracleHeaders = OracleHeaders
  /\ mappingError = <<>>
  /\ NoResults
  /\ pc = "idle"
  /\ drmisLookup = loadedLookup(drmisHeaders, drmisRows[1])
  /\ OtherIdle

SpecExpansion == InitExpansion /\ [][Submit]_vars

\* one run of the pipeline over files whose headers are drawn from the header
\* variants, with no row or one row each
InitColumns ==
  /\ leaveCodeWhitelist = {}
  /\ drmisRows \in {<< <<>> >>, << <<CHOOSE r \in DrmisRowPool : r.pers = Str(p7) /\ r.hours = Num(425)>> >>}
  /\ drmisHeaders \in DrmisHeaderVariants
  /\ oracleRows \in {<< <<>> >>, << <<CHOOSE r \in OracleRowPool : r.hours = Num(800)>> >>}
  /\ oracleHeaders \in OracleHeaderVariants
  /\ mappingError = <<>>
  /\ NoResults
  /\ pc = "idle"
  /\ drmisLookup = loadedLookup(drmisHeaders, drmisRows[1])
  /\ OtherIdle

SpecColumns == InitColumns /\ [][Submit]_vars

\* files in which DRMIS rows share their date and employee id
InitDuplicates ==
  /\ leaveCodeWhitelist = {}
  /\ drmisRows \in {<<rows>> : rows \in SeqsUpTo(DuplicatePool, MaxDuplicates)}
  /\ drmisHeaders = DrmisHeaders
  /\ oracleRows \in {<<rows>> : rows \in SeqsUpTo(OracleRowPool, MaxOracleRows)}
  /\ oracleHeaders = OracleHeaders
  /\ mappingError = <<>>
  /\ NoResults
  /\ pc = "idle"
  /\ drmisLookup = loadedLookup(drmisHeaders, drmisRows[1])
  /\ OtherIdle

SpecDuplicates == InitDuplicates /\ [][Submit]_vars

\* a DRMIS file with work entries and an Oracle file are loaded
InitPrefill ==
  /\ leaveCodeWhitelist = {}
  /\ drmisRows \in {<<rows>> : rows \in SeqsUpTo(PrefillRowPool, MaxPrefillRows)}
  /\ drmisHeaders = PrefillHeaders
  /\ oracleRows \in {<<rows>> : rows \in SeqsUpTo(PrefillOracleRows, 1)}
  /\ oracleHeaders = OracleHeaders
  /\ mappingError = <<>>
  /\ NoResults
  /\ drmisLookup = loadedLookup(drmisHeaders, drmisRows[1])
  /\ pc = "idle"
  /\ OtherIdle

\* the route /cats-edits after a run: initCatsEditsPage builds the table from
\* catsEditsData (read back from sessionStorage; the JSON text keeps every field
\* the rows are made from), calling prefillEditableRow for each data-row
InitCatsEditsPage ==
  /\ pc = "done"
  /\ \E page \in {initCatsEditsPage(catsEditsData, drmisLookup)} :
       /\ catsTable' = page.rows
       /\ drmisLookup' = page.lookup
       /\ prefillCalls' = page.calls
  /\ pc' = "cats"
  /\ UNCHANGED <<pipelineVars, loopVars, sheetVars>>

NextPrefill == Submit \/ InitCatsEditsPage

SpecPrefill == InitPrefill /\ [][NextPrefill]_vars

\* the CATs page after a run over one day of one employee
InitAllocation ==
  /\ leaveCodeWhitelist = {}
  /\ drmisRows \in {<<leave \o work>> : leave \in AllocationLeaveRows,
                                        work \in AllocationWorkRows}
  /\ drmisHeaders = PrefillHeaders
  /\ oracleRows \in {<<rows>> : rows \in AllocationOracleRows}
  /\ oracleHeaders = OracleHeaders
  /\ mappingError = <<>>
  /\ NoResults
  /\ drmisLookup = loadedLookup(drmisHeaders, drmisRows[1])
  /\ pc = "idle"
  /\ OtherIdle

SpecAllocation == InitAllocation /\ [][NextPrefill]_vars

\* the CATs page after a run over a DRMIS export of either spelling
InitLookup ==
  /\ leaveCodeWhitelist \in Whitelists
  /\ drmisRows \in {<<rows>> : rows \in SeqsUpTo(LookupRowPool, MaxLookupRows)}
  /\ drmisHeaders \in LookupHeaders
  /\ oracleRows = << <<oracleRow(nativeDate(dayA), Num(800), Num(110))>> >>
  /\ oracleHeaders = OracleHeaders
  /\ mappingError = <<>>
  /\ NoResults
  /\ drmisLookup = loadedLookup(drmisHeaders, drmisRows[1])
  /\ pc = "idle"
  /\ OtherIdle

SpecLookup == InitLookup /\ [][NextPrefill]_vars

\* a sheet has been read: the table of its rows is detected
InitSheet ==
  /\ PipelineIdle
  /\ LoopIdle
  /\ TableIdle
  /\ sheetGrid \in SheetGrids
  /\ sheetTable = sheetRowsToObjects(<<>>)
  /\ pc = "idle"

ReadSheet ==
  /\ pc = "idle"
  /\ sheetGrid # <<>>
  /\ sheetTable' = sheetRowsToObjects(sheetGrid)
  /\ pc' = "read"
  /\ UNCHANGED <<pipelineVars, drmisLookup, loopVars, sheetGrid, tableVars>>

SpecSheet == InitSheet /\ [][ReadSheet]_vars

\* the else branch of expandOracleEntries for one record, one loop test at a time
InitLoop ==
  /\ PipelineIdle
  /\ loopRow \in {<<r>> : r \in LoopRecords}
  /\ loopRemaining = loopRow[1].hours
  /\ loopDate = loopRow[1].Date
  /\ loopExpanded = <<>>
  /\ SheetIdle
  /\ TableIdle
  /\ pc = "expanding"

\* while (!isBusinessDay(currentDate)) currentDate = currentDate + 24h
ExpandSkipDay ==
  /\ pc = "expanding"
  /\ dblPositive(loopRemaining)
  /\ ~isBusinessDay(loopDate)
  /\ loopDate' = loopDate + 1
  /\ UNCHANGED <<pipelineVars, drmisLookup, pc, loopRow, loopRemaining, loopExpanded, sheetVars, tableVars>>

\* the rest of the body of while (remaining > 0); the records kept are capped
ExpandPush ==
  /\ pc = "expanding"
  /\ dblPositive(loopRemaining)
  /\ isBusinessDay(loopDate)
  /\ Len(loopExpanded) < MaxPushed
  /\ loopExpanded' = Append(loopExpanded,
                            [Date |-> loopDate, OracleHours |-> dblMin8(loopRemaining),
                             OracleLeaveCode |-> loopRow[1].OracleLeaveCode])
  /\ loopRemaining' = dblMinus(loopRemaining, dblMin8(loopRemaining))
  /\ loopDate' = loopDate + 1
  /\ UNCHANGED <<pipelineVars, drmisLookup, pc, loopRow, sheetVars, tableVars>>

\* remaining > 0 is false: the loop is left
ExpandExit ==
  /\ pc = "expanding"
  /\ ~dblPositive(loopRemaining)
  /\ pc' = "expanded"
  /\ UNCHANGED <<pipelineVars, drmisLookup, loopVars, sheetVars, tableVars>>

NextLoop == ExpandSkipDay \/ ExpandPush \/ ExpandExit

SpecLoop == InitLoop /\ [][NextLoop]_vars

(* ------------------------------- claims -------------------------------- *)

\* the mismatch mm carries the values of the merged row r
SameRow(mm, r) ==
  /\ mm.Date = r.Date
  /\ mm.PersNo = r.PersNo
  /\ mm.OracleLeaveCode = r.OracleLeaveCode
  /\ mm.OracleHours = r.OracleHours
  /\ mm.DrmisLeaveCode = r.DrmisLeaveCode
  /\ mm.DrmisHours = r.DrmisHours

\* the data row generated for the j-th mismatch
DataRow(j) == catsEditsData[2 * j - 1]

\* the value v renders the code: the code itself, or the number a code of digits
\* denotes (numeric codes are rendered without leading zeros)
SameCode(v, code) == v = Str(code) \/ (AllDigits(code) /\ v = Num(digitsValue(code)))

\* the target code of a data row is code, blank when code is ''
TargetIs(row, code) ==
  IF code = <<>> THEN row.aa_code = Str(<<>>) ELSE SameCode(row.aa_code, code)

SumHours(recs) ==
  LET S[k \in 0..Len(recs)] == IF k = 0 THEN 0 ELSE S[k - 1] + recs[k].OracleHours
  IN S[Len(recs)]

\* C1: with no allow-list active, a merged row is returned as a mismatch if and
\* only if its two leave codes differ as strings or its two hours differ as
\* numbers, and nothing but merged rows is returned.
C1_MismatchIffDiffer ==
  (pc = "done" /\ leaveCodeWhitelist = {}) =>
    /\ \A i \in 1..Len(merged) :
         (\E j \in 1..Len(mismatches) : SameRow(mismatches[j], merged[i]))
           <=> \/ merged[i].DrmisLeaveCode # merged[i].OracleLeaveCode
               \/ merged[i].DrmisHours # merged[i].OracleHours
    /\ \A j \in 1..Len(mismatches) :
         \E i \in 1..Len(merged) : SameRow(mismatches[j], merged[i])

\* a run whose only merged row has 8 hours and code 1110 on both sides, and is
\* not returned
C1_Witness ==
  /\ pc = "done"
  /\ leaveCodeWhitelist = {}
  /\ Len(merged) = 1
  /\ merged[1].DrmisLeaveCode = c1110
  /\ merged[1].OracleLeaveCode = c1110
  /\ merged[1].DrmisHours = 800
  /\ merged[1].OracleHours = 800
  /\ mismatches = <<>>

\* C2: the hours of the records emitted for a pre-expansion Oracle record of more
\* than 8 hours sum to the hours of that record, whatever its start date (and so
\* the emitted hours of a run sum to the pre-expansion hours).
C2_ExpansionPreservesHours ==
  pc = "done" =>
    /\ SumHours(oracleExtracted) = SumHours(oracleOut)
    /\ (Len(oracleOut) = 1 /\ oracleOut[1].OracleHours > DayCap) =>
         /\ Len(oracleExtracted) > 1
         /\ SumHours(oracleExtracted) = oracleOut[1].OracleHours

\* a record of 20 hours has been expanded into three records
C2_Witness ==
  /\ pc = "done"
  /\ Len(oracleOut) = 1
  /\ oracleOut[1].OracleHours = 2000
  /\ Len(oracleExtracted) = 3

\* C3: every record extractOracleData returns has hours h with 0 <= h <= 8.
C3_HoursWithinDay ==
  pc = "done" =>
    \A i \in 1..Len(oracleExtracted) :
      0 <= oracleExtracted[i].OracleHours /\ oracleExtracted[i].OracleHours <= DayCap

\* a run in which a row of -8 hours has become a record of -8 hours
C3_NegativeHours ==
  /\ pc = "done"
  /\ \E i \in 1..Len(oracleExtracted) : oracleExtracted[i].OracleHours = 0 - DayCap

\* the text of an employee id, '' for none
IdText(v) == IF v.t = "null" THEN <<>> ELSE ToStr(v)

NoOracleOn(d) == \A j \in 1..Len(oracleExtracted) : oracleExtracted[j].Date # d

BlankOrZero(code) == code = <<>> \/ code = <<"0">>

\* C5: the target of a data row: when the Oracle code is blank or "0" and the
\* Oracle hours are 0, the DRMIS code unless it is "0" (else blank) with hours 0;
\* otherwise the Oracle code unless it is "0", else the DRMIS code unless it is
\* "0", else blank, with the Oracle hours.
C5_TargetPriority ==
  pc = "done" =>
    \A j \in 1..Len(mismatches) :
      LET m == mismatches[j]
      IN IF BlankOrZero(m.OracleLeaveCode) /\ m.OracleHours = 0
         THEN /\ TargetIs(DataRow(j), IF m.DrmisLeaveCode # <<"0">> THEN m.DrmisLeaveCode
                                      ELSE <<>>)
              /\ DataRow(j).hours = Num(0)
         ELSE /\ TargetIs(DataRow(j), IF m.OracleLeaveCode # <<"0">> THEN m.OracleLeaveCode
                                      ELSE IF m.DrmisLeaveCode # <<"0">> THEN m.DrmisLeaveCode
                                      ELSE <<>>)
              /\ DataRow(j).hours = Num(m.OracleHours)

\* a run in which the Oracle code 1N/A (of the cell N/A) has the target code 1
C5_TruncatedCode ==
  /\ pc = "done"
  /\ \E j \in 1..Len(mismatches) :
       /\ mismatches[j].OracleLeaveCode = <<"1">> \o cNA
       /\ DataRow(j).aa_code = Num(1)

\* indices of the DRMIS records, Oracle records and map rows of day d
DrmisOn(d) == {i \in 1..Len(drmisExtracted) : drmisExtracted[i].Date = d}
OracleOn(d) == {j \in 1..Len(oracleExtracted) : oracleExtracted[j].Date = d}
RowsOn(d) == {k \in 1..Len(mergeMap) : mergeMap[k].Date = d}

Least(S) == CHOOSE x \in S : \A y \in S : x <= y
Greatest(S) == CHOOSE x \in S : \A y \in S : x >= y

NonEmptyId(v) == v.t # "null" /\ ToStr(v) # <<>>

\* the first non-empty employee id of the DRMIS records, '' when there is none
FirstEmployeeId ==
  LET ids == {i \in 1..Len(drmisExtracted) : NonEmptyId(drmisExtracted[i].PersNo)}
  IN IF ids = {} THEN <<>> ELSE ToStr(drmisExtracted[Least(ids)].PersNo)

\* C6: the Oracle records of a date go to the first merged row of that date,
\* whatever its employee id, each overwriting the row's Oracle hours and code, and
\* no row is added; when the date has no merged row, one row is created with
\* DRMIS hours 0, DRMIS code "0" and the first non-empty employee id of the DRMIS
\* records ('' when there is none).
C6_OraclePlacement ==
  pc = "done" =>
    \A j \in 1..Len(oracleExtracted) :
      LET d == oracleExtracted[j].Date
          last == oracleExtracted[Greatest(OracleOn(d))]
      IN IF DrmisOn(d) # {}
         THEN LET first == drmisExtracted[Least(DrmisOn(d))]
                  row == mergeMap[Least(RowsOn(d))]
              IN /\ row.PersNo = first.PersNo
                 /\ row.DrmisHours = first.DrmisHours
                 /\ row.DrmisLeaveCode = first.DrmisLeaveCode
                 /\ row.OracleHours = last.OracleHours
                 /\ row.OracleLeaveCode = last.OracleLeaveCode
                 /\ \A k \in RowsOn(d) \ {Least(RowsOn(d))} :
                      /\ mergeMap[k].OracleHours = 0
                      /\ mergeMap[k].OracleLeaveCode = <<>>
                      /\ \E i \in DrmisOn(d) :
                           IdText(drmisExtracted[i].PersNo) = IdText(mergeMap[k].PersNo)
         ELSE /\ Cardinality(RowsOn(d)) = 1
              /\ LET row == mergeMap[Least(RowsOn(d))]
                 IN /\ row.PersNo = Str(FirstEmployeeId)
                    /\ row.DrmisHours = 0
                    /\ row.DrmisLeaveCode = <<"0">>
                    /\ row.OracleHours = last.OracleHours
                    /\ row.OracleLeaveCode = last.OracleLeaveCode

\* a run in which an Oracle record went to a DRMIS row whose employee id is not
\* the default one, and another Oracle record made a row of its own
C6_Witness ==
  /\ pc = "done"
  /\ \E j \in 1..Len(oracleExtracted) :
       LET d == oracleExtracted[j].Date
       IN /\ DrmisOn(d) # {}
          /\ IdText(mergeMap[Least(RowsOn(d))].PersNo) # FirstEmployeeId
          /\ mergeMap[Least(RowsOn(d))].OracleLeaveCode = oracleExtracted[j].OracleLeaveCode
  /\ \E j \in 1..Len(oracleExtracted) :
       /\ DrmisOn(oracleExtracted[j].Date) = {}
       /\ FirstEmployeeId # <<>>

\* C7: no two mismatches have the same date and the same employee id.
C7_NoDuplicateKey ==
  pc = "done" =>
    \A i, j \in 1..Len(mismatches) :
      (i # j /\ mismatches[i].Date = mismatches[j].Date)
        => mismatches[i].PersNo # mismatches[j].PersNo

\* a run in which the DRMIS records of employee ids "7" and "07" of one date
\* have become two mismatches of that date with the employee id 7
C7_DuplicateKey ==
  /\ pc = "done"
  /\ Len(mismatches) = 2
  /\ mismatches[1].Date = mismatches[2].Date
  /\ mismatches[1].PersNo = Num(7)
  /\ mismatches[2].PersNo = Num(7)
  /\ mergeMap[1].key # mergeMap[2].key

\* C8: the mismatches are in ascending date order.
C8_SortedByDate ==
  pc = "done" =>
    \A i, j \in 1..Len(mismatches) : i < j => mismatches[i].Date <= mismatches[j].Date

\* a run whose merged rows hold two mismatching rows in descending date order
C8_Witness ==
  /\ pc = "done"
  /\ Len(mismatches) >= 2
  /\ \E i, k \in 1..Len(merged) :
       /\ i < k
       /\ merged[i].Date > merged[k].Date
       /\ \E j \in 1..Len(mismatches) : SameRow(mismatches[j], merged[i])
       /\ \E j \in 1..Len(mismatches) : SameRow(mismatches[j], merged[k])

\* C9: the reason of a data row names "Code Mismatch" exactly when the codes
\* differ and "Hours Mismatch" exactly when the hours differ, joined by ", " in
\* that order, and it is not empty.
C9_DiscrepancyReason ==
  pc = "done" =>
    \A j \in 1..Len(mismatches) :
      LET m == mismatches[j]
          codes == m.OracleLeaveCode # m.DrmisLeaveCode
          hours == m.OracleHours # m.DrmisHours
          reason == DataRow(j).discrepancy_reason
      IN /\ (codes /\ hours) <=> reason = "Code Mismatch, Hours Mismatch"
         /\ (codes /\ ~hours) <=> reason = "Code Mismatch"
         /\ (~codes /\ hours) <=> reason = "Hours Mismatch"
         /\ reason # ""

\* a run with a data row whose codes agree and whose hours differ
C9_Witness ==
  /\ pc = "done"
  /\ \E j \in 1..Len(mismatches) :
       /\ mismatches[j].OracleLeaveCode = mismatches[j].DrmisLeaveCode
       /\ DataRow(j).discrepancy_reason = "Hours Mismatch"

Present(code) == code # <<>>

\* C10: a data row is flagged replaced if and only if the Oracle code and the
\* DRMIS code are both present, both different from "0", and different from each
\* other.
C10_ReplacedFlag ==
  pc = "done" =>
    \A j \in 1..Len(mismatches) :
      LET m == mismatches[j]
      IN DataRow(j).replaced <=>
           /\ Present(m.OracleLeaveCode) /\ Present(m.DrmisLeaveCode)
           /\ m.OracleLeaveCode # <<"0">> /\ m.DrmisLeaveCode # <<"0">>
           /\ m.OracleLeaveCode # m.DrmisLeaveCode

\* a run with a data row flagged replaced: Oracle code 1120 against DRMIS 1110
C10_Witness ==
  /\ pc = "done"
  /\ \E j \in 1..Len(mismatches) :
       /\ DataRow(j).replaced
       /\ mismatches[j].OracleLeaveCode = c1120
       /\ mismatches[j].DrmisLeaveCode = c1110

\* the entry is the data row of mismatch m
IsDataRowOf(e, m) ==
  /\ e.row_type = "data-row"
  /\ e.date = formattedDateForDisplay(m.Date)
  /\ e.original_drmis_code = m.DrmisLeaveCode
  /\ e.original_drmis_hours = m.DrmisHours

\* the entry is a total row with the label "Total Hours" and the given hours
IsTotalRow(e, hours) ==
  /\ e.row_type = "total-row"
  /\ e.aa_code = Str(TotalHoursLabel)
  /\ e.hours = hours

\* C11 (as stated): two entries per mismatch in mismatch order, the data row,
\* then the total row with the label "Total Hours" and the Oracle hours of the
\* mismatch; the length is twice the number of mismatches.
C11_TwoEntriesPerMismatch ==
  pc = "done" =>
    /\ Len(catsEditsData) = 2 * Len(mismatches)
    /\ \A j \in 1..Len(mismatches) :
         /\ IsDataRowOf(catsEditsData[2 * j - 1], mismatches[j])
         /\ IsTotalRow(catsEditsData[2 * j], Num(mismatches[j].OracleHours))

\* C11 (amended): as above, but the total row carries the Oracle hours only when
\* they are not 0, and a blank hours field when they are 0.
C11_TwoEntriesBlankZero ==
  pc = "done" =>
    /\ Len(catsEditsData) = 2 * Len(mismatches)
    /\ \A j \in 1..Len(mismatches) :
         /\ IsDataRowOf(catsEditsData[2 * j - 1], mismatches[j])
         /\ IsTotalRow(catsEditsData[2 * j],
                       IF mismatches[j].OracleHours = 0 THEN Str(<<>>)
                       ELSE Num(mismatches[j].OracleHours))

\* a run with two mismatches of different dates, one with Oracle hours 0 and a
\* blank total, one with Oracle hours and a total that carries them
C11_Witness ==
  /\ pc = "done"
  /\ Len(catsEditsData) >= 4
  /\ \E i, j \in 1..Len(mismatches) :
       /\ mismatches[i].Date # mismatches[j].Date
       /\ mismatches[i].OracleHours = 0
       /\ catsEditsData[2 * i].hours = Str(<<>>)
       /\ mismatches[j].OracleHours > 0
       /\ catsEditsData[2 * j].hours = Num(mismatches[j].OracleHours)

\* some header, lowered and trimmed, satisfies P
SomeHeader(headers, P(_)) == \E i \in 1..Len(headers) : P(trim(toLowerCase(headers[i])))

\* the required DRMIS columns that no header of the loaded file stands for
DrmisUnresolved ==
  (IF SomeHeader(drmisHeaders, LAMBDA h : includes(h, kPers) /\ includes(h, kNo))
   THEN {} ELSE {"Pers No"})
  \cup (IF SomeHeader(drmisHeaders, LAMBDA h : h = kDate) THEN {} ELSE {"Date"})
  \cup (IF SomeHeader(drmisHeaders, LAMBDA h : h = kHours) THEN {} ELSE {"Hours"})
  \cup (IF SomeHeader(drmisHeaders, LAMBDA h : includes(h, kAA) /\ includes(h, kType)
                                               /\ ~includes(h, kText))
        THEN {} ELSE {"A/A Type"})

\* the required Oracle columns that no header of the loaded file stands for
OracleUnresolved ==
  (IF SomeHeader(oracleHeaders, LAMBDA h : (includes(h, kFrom) /\ includes(h, kDate)) \/ h = kDate)
   THEN {} ELSE {"From Date"})
  \cup (IF SomeHeader(oracleHeaders, LAMBDA h : (includes(h, kHours) /\ includes(h, kRecorded))
                                                \/ h = kHours)
        THEN {} ELSE {"Hours Recorded"})
  \cup (IF SomeHeader(oracleHeaders, LAMBDA h : includes(h, kLeave) /\ includes(h, kCode))
        THEN {} ELSE {"Leave Code"})

\* the dialog shows the Error of the given extractor, naming exactly the given
\* columns and listing the given headers, and the run has produced no records
FailedWith(fileType, names, headers) ==
  /\ pc = "mapping"
  /\ Len(mappingError) = 1
  /\ mappingError[1].fileType = fileType
  /\ {mappingError[1].missing[i] : i \in 1..Len(mappingError[1].missing)} = names
  /\ mappingError[1].available = headers
  /\ NoResults

\* C12 (as stated): an extractor fails with the Error whenever a required column
\* cannot be resolved; the Error names every missing column and lists the
\* headers, and no records are returned. (The Oracle extractor runs only when
\* the DRMIS extractor has not failed.)
C12_MissingColumns ==
  pc # "idle" =>
    /\ DrmisUnresolved # {} => FailedWith("DRMIS", DrmisUnresolved, drmisHeaders)
    /\ (DrmisUnresolved = {} /\ OracleUnresolved # {})
         => FailedWith("ORACLE", OracleUnresolved, oracleHeaders)

\* C12 (amended): the same for an extractor that is given at least one record;
\* given no records it returns no records and does not fail.
C12_MissingColumnsOfRecords ==
  pc # "idle" =>
    LET drmisFails == drmisRows[1] # <<>> /\ DrmisUnresolved # {}
        oracleFails == oracleRows[1] # <<>> /\ OracleUnresolved # {}
    IN /\ drmisFails => FailedWith("DRMIS", DrmisUnresolved, drmisHeaders)
       /\ (~drmisFails /\ oracleFails) => FailedWith("ORACLE", OracleUnresolved, oracleHeaders)
       /\ (~drmisFails /\ ~oracleFails) => (pc = "done" /\ mappingError = <<>>)
       /\ (drmisRows[1] = <<>> /\ pc = "done") => drmisExtracted = <<>>
       /\ (oracleRows[1] = <<>> /\ pc = "done") => oracleExtracted = <<>>

\* a run in which the DRMIS extractor has failed naming two missing columns
C12_Witness ==
  /\ pc = "mapping"
  /\ mappingError[1].fileType = "DRMIS"
  /\ mappingError[1].missing = <<"Date", "A/A Type">>
  /\ mappingError[1].available = drmisHeaders

startsWith30(code) == Len(code) >= 2 /\ code[1] = "3" /\ code[2] = "0"

\* C13: no record extractDrmisData returns has a code that starts with "30", and
\* with an allow-list active the code of every returned record is in it.
C13_DrmisFilters ==
  pc = "done" =>
    \A i \in 1..Len(drmisExtracted) :
      /\ ~startsWith30(drmisExtracted[i].DrmisLeaveCode)
      /\ leaveCodeWhitelist # {} => drmisExtracted[i].DrmisLeaveCode \in leaveCodeWhitelist

\* a run under the allow-list that holds 3010, in which the row of code 3010 has
\* been dropped
C13_Witness ==
  /\ pc = "done"
  /\ c3010 \in leaveCodeWhitelist
  /\ drmisRows[1] # <<>>
  /\ drmisRows[1][1].atype = Str(c3010)
  /\ normalizeDate(drmisRows[1][1].date) # <<>>
  /\ drmisExtracted = <<>>

\* the codes that are never reconciled
ExcludedOracleCodes == {Chars("1200"), Chars("1260"), Chars("1261"), Chars("1660")}

\* C14: no record extractOracleData returns, expansion included, has a code in
\* {1200, 1260, 1261, 1660}, and with an allow-list active none has the code "0"
\* or a code outside the allow-list.
C14_OracleFilters ==
  pc = "done" =>
    \A i \in 1..Len(oracleExtracted) :
      /\ oracleExtracted[i].OracleLeaveCode \notin ExcludedOracleCodes
      /\ leaveCodeWhitelist # {} =>
           /\ oracleExtracted[i].OracleLeaveCode # <<"0">>
           /\ oracleExtracted[i].OracleLeaveCode \in leaveCodeWhitelist

\* a run under the allow-list that holds "0" and 1200 in which a row of 20 hours
\* and code 110 has been expanded into three records of code 1110
C14_Witness ==
  /\ pc = "done"
  /\ <<"0">> \in leaveCodeWhitelist
  /\ Chars("1200") \in leaveCodeWhitelist
  /\ Len(oracleRows[1]) = 1
  /\ Len(oracleExtracted) = 3
  /\ \A i \in 1..3 : oracleExtracted[i].OracleLeaveCode = c1110

\* C15: the Oracle code normalization gives "0" for an empty, blank or dash
\* value, "1" and the digits for a value with exactly 3 digits, and leaves every
\* other value as it is (its digits, or its text when it has no digit); applied
\* to its own result for a code of 3 or 4 digits it gives that result again.
C15_OracleCodeNormalization ==
  (pc = "done" /\ leaveCodeWhitelist = {} /\ Len(oracleRows[1]) = 1 /\ Len(oracleOut) = 1) =>
    LET cell == oracleRows[1][1].leaveCode
        text == IF cell.t = "null" THEN <<>> ELSE trim(ToStr(cell))
        digits == digitsOnly(text)
        code == oracleOut[1].OracleLeaveCode
    IN IF text = <<>> \/ text = <<"-">> THEN code = <<"0">>
       ELSE /\ Len(digits) = 3 => code = <<"1">> \o digits
            /\ (Len(digits) # 3 /\ digits # <<>>) => code = digits
            /\ digits = <<>> => code = text
            /\ Len(digits) \in {3, 4} =>
                 /\ Len(code) = 4
                 /\ oracleKeyOf(normalizeLeaveCodeRaw(Str(code))) = code

\* a run in which the value N/A, which has no digit, has become the code 1N/A
C15_PrefixedText ==
  /\ pc = "done"
  /\ Len(oracleRows[1]) = 1
  /\ oracleRows[1][1].leaveCode = Str(cNA)
  /\ Len(oracleOut) = 1
  /\ oracleOut[1].OracleLeaveCode = <<"1">> \o cNA

\* the same without the values of three characters that hold no digit
C15_ExceptThreeCharacterText ==
  (pc = "done" /\ leaveCodeWhitelist = {} /\ Len(oracleRows[1]) = 1 /\ Len(oracleOut) = 1) =>
    LET cell == oracleRows[1][1].leaveCode
        text == IF cell.t = "null" THEN <<>> ELSE trim(ToStr(cell))
    IN (Len(text) = 3 /\ digitsOnly(text) = <<>>) \/ C15_OracleCodeNormalization

\* C18: each pass of the expansion loop that pushes a record leaves strictly
\* fewer hours remaining (so the loop ends once they reach 0), and a pass that
\* looks for a business day moves to the next calendar day.
C18_RemainingDecreases ==
  [][/\ (loopExpanded' # loopExpanded => dblLess(loopRemaining', loopRemaining))
     /\ (loopDate' # loopDate => loopDate' = loopDate + 1)]_vars

\* two records have been pushed and the hours remaining are those the loop began with
C18_RemainingUnchanged ==
  /\ pc = "expanding"
  /\ Len(loopExpanded) >= 2
  /\ loopRemaining = loopRow[1].hours

\* a Saturday, a Sunday or a listed holiday
WeekendOrHoliday(d) == getDay(d) \in {0, 6} \/ d \in holidays2025

\* C19: a record of more than 8 hours gives records on consecutive business
\* days in strictly increasing date order, the first on the earliest business
\* day on or after the record's date and none on a weekend or a holiday; each
\* has 8 hours but the last, which has the remainder, and each has the code of
\* the record; 20 hours give 8, 8 and 4.
C19_ExpansionSchedule ==
  (pc = "done" /\ Len(oracleOut) = 1 /\ oracleOut[1].OracleHours > DayCap) =>
    LET row == oracleOut[1]
        n == Len(oracleExtracted)
        day(i) == oracleExtracted[i].Date
    IN /\ n >= 2
       /\ day(1) >= row.Date
       /\ \A d \in row.Date..(day(1) - 1) : WeekendOrHoliday(d)
       /\ \A i \in 1..n : ~WeekendOrHoliday(day(i))
       /\ \A i \in 1..(n - 1) :
            /\ day(i) < day(i + 1)
            /\ \A d \in (day(i) + 1)..(day(i + 1) - 1) : WeekendOrHoliday(d)
            /\ oracleExtracted[i].OracleHours = DayCap
       /\ oracleExtracted[n].OracleHours = row.OracleHours - DayCap * (n - 1)
       /\ oracleExtracted[n].OracleHours > 0
       /\ oracleExtracted[n].OracleHours <= DayCap
       /\ \A i \in 1..n : oracleExtracted[i].OracleLeaveCode = row.OracleLeaveCode
       /\ row.OracleHours = 2000 =>
            [i \in 1..n |-> oracleExtracted[i].OracleHours] = <<800, 800, 400>>

\* 20 hours from the Thursday before Good Friday: Thursday, Monday (Friday is a
\* holiday), Tuesday
C19_Witness ==
  /\ pc = "done"
  /\ Len(oracleOut) = 1
  /\ oracleOut[1].OracleHours = 2000
  /\ oracleOut[1].Date + 1 \in holidays2025
  /\ [i \in 1..Len(oracleExtracted) |-> oracleExtracted[i].Date - oracleOut[1].Date]
       = <<0, 4, 5>>

\* two DRMIS records of one date and one employee id
SameKey(a, b) == a.Date = b.Date /\ IdText(a.PersNo) = IdText(b.PersNo)

\* the first DRMIS record, in list order, of the key of record i
FirstOfKey(i) ==
  Least({j \in 1..Len(drmisExtracted) : SameKey(drmisExtracted[j], drmisExtracted[i])})

\* C20: of the DRMIS records of one date and employee id, the first in list
\* order gives the DRMIS hours and code of the single merged row of that key;
\* the later ones change nothing, whatever Oracle records there are.
C20_FirstDuplicateWins ==
  pc = "done" =>
    \A i \in 1..Len(drmisExtracted) :
      LET first == drmisExtracted[FirstOfKey(i)]
          rows == {k \in 1..Len(mergeMap) : SameKey(mergeMap[k], first)}
      IN /\ Cardinality(rows) = 1
         /\ \A k \in rows :
              /\ mergeMap[k].DrmisHours = first.DrmisHours
              /\ mergeMap[k].DrmisLeaveCode = first.DrmisLeaveCode
              /\ merged[k].DrmisHours = first.DrmisHours

\* three DRMIS records of one key with different hours, and an Oracle record of
\* their date
C20_Witness ==
  /\ pc = "done"
  /\ Len(drmisExtracted) = 3
  /\ \A i \in 1..3 : FirstOfKey(i) = 1
  /\ drmisExtracted[1].DrmisHours # drmisExtracted[2].DrmisHours
  /\ drmisExtracted[1].DrmisHours # drmisExtracted[3].DrmisHours
  /\ \E j \in 1..Len(oracleExtracted) : oracleExtracted[j].Date = drmisExtracted[1].Date

\* a row of blank cells, and a column that is blank in every row
BlankRow(row) == \A c \in 1..Len(row) : isBlankCell(row[c])
BlankCol(grid, c) == \A r \in 1..Len(grid) : isBlankCell(cellAt(grid[r], c))

\* the blank rows and the blank columns before the first filled ones
LeadingBlankRows(grid) ==
  Cardinality({r \in 1..Len(grid) : \A q \in 1..r : BlankRow(grid[q])})
LeadingBlankCols(grid) ==
  Cardinality({c \in 1..Len(grid[1]) : \A d \in 1..c : BlankCol(grid, d)})

\* the grid without them
Stripped(grid) ==
  LET r == LeadingBlankRows(grid)
      c == LeadingBlankCols(grid)
  IN [i \in 1..(Len(grid) - r) |-> SubSeq(grid[r + i], c + 1, Len(grid[r + i]))]

\* C17: for a grid of a header row and data rows behind blank leading rows and
\* blank leading columns, sheetRowsToObjects returns the headers and the records
\* it returns for the grid without those blanks.
C17_BlankLeadingIgnored ==
  pc = "read" => sheetTable = sheetRowsToObjects(Stripped(sheetGrid))

\* the header row is among the rows that are scanned
HeaderInScan(grid) ==
  LeadingBlankRows(grid) + bestIdxOf(Stripped(grid)) <= maxScanRows

\* a column has as many filled cells below the header row as a kept column needs
SomeColumnKept(grid) ==
  LET rows == Stripped(grid)
      bestIdx == bestIdxOf(rows)
  IN \E c \in 1..Len(rows[bestIdx]) :
       colNonEmptyOf(rows, bestIdx, c) >= thresholdOf(Len(rows) - bestIdx)

\* C17, amended: the same, for blank leading rows that leave the header row
\* among the first 30 rows and, where there are blank leading columns, for a
\* grid in which a column has max(3, 15% of the rows below the header) or more
\* filled cells below the header.
C17_BlankLeadingInScan ==
  (/\ pc = "read"
   /\ HeaderInScan(sheetGrid)
   /\ LeadingBlankCols(sheetGrid) = 0 \/ SomeColumnKept(sheetGrid)) =>
    sheetTable = sheetRowsToObjects(Stripped(sheetGrid))

\* a title row, a header row and three records behind a blank row and a blank column
C17_Witness ==
  /\ pc = "read"
  /\ LeadingBlankRows(sheetGrid) = 1
  /\ LeadingBlankCols(sheetGrid) = 1
  /\ Len(sheetGrid) >= 6
  /\ sheetTable.headers = <<Chars("Pers No"), Chars("Date"), Chars("Hours")>>
  /\ Len(sheetTable.rows) = 3

\* the data rows of the table, in order
TableDataRows == SelectSeq(catsTable, LAMBDA row : row.rowType = "data-row")

\* C16: the calls of prefillEditableRow, filled or not, leave every data row as
\* it was made from its entry and the entries of the lookup as they were built
\* from the file; a call that fills nothing raises no error and leaves the
\* supplementary row blank, and that row is not put in the table.
C16_PrefillFrame ==
  pc = "cats" =>
    /\ Len(TableDataRows) = Len(mismatches)
    /\ \A j \in 1..Len(mismatches) : TableDataRows[j] = rowOfEntry(catsEditsData[2 * j - 1])
    /\ drmisLookup = buildDrmisLookup(drmisHeaders, drmisRows[1])
    /\ Len(prefillCalls) = Len(mismatches)
    /\ \A k \in 1..Len(prefillCalls) :
         ~prefillCalls[k].filled =>
           ~prefillCalls[k].threw /\ prefillCalls[k].newRow = blankEditableRow
    /\ Cardinality({i \in 1..Len(catsTable) : catsTable[i].rowType = "editable-row"})
         = Cardinality({k \in 1..Len(prefillCalls) : prefillCalls[k].filled})

\* a call has filled a row with more hours than its entry of the lookup has, and
\* another call, for a date and Pers No that have entries, has filled nothing
C16_Witness ==
  /\ pc = "cats"
  /\ \E i \in 1..Len(catsTable) :
       /\ catsTable[i].rowType = "editable-row"
       /\ \A m \in 1..Len(drmisLookup) : \A e \in 1..Len(drmisLookup[m].entries) :
            toFixed2(drmisLookup[m].entries[e].hours) # catsTable[i].cells[6]
  /\ \E k \in 1..Len(prefillCalls) :
       /\ ~prefillCalls[k].filled
       /\ lookupGet(drmisLookup, <<toISODate(mismatches[k].Date), ToStr(mismatches[k].PersNo)>>)
            # <<>>

\* the sum of a sequence of integers
RECURSIVE Total(_)
Total(s) == IF s = <<>> THEN 0 ELSE Head(s) + Total(Tail(s))

\* the hundredths of an hour nearest to the double x
Hundredths(x) == fpMathRound(fpMul(x, fpOfInt(100)))

\* the hours of the candidates of a call that pass the filter, in hundredths
Available(call) ==
  [i \in 1..Len(call.filtered) |-> call.candidates[call.filtered[i]].hours]

\* data-original-drmis-hours of the data row of a call, in hundredths
OriginalDrmisHours(call) ==
  IF call.dataRow.dataset.originalDrmisHours = <<>> THEN 0
  ELSE parseFloatOrZero(call.dataRow.dataset.originalDrmisHours[1])

\* the calls that took the branch of the leave that Oracle removed
OracleRemovedCalls ==
  {k \in 1..Len(prefillCalls) : prefillCalls[k].residuals.isOracleRemoved}

\* hours h (summing to 0 or more) after toAdd is handed out in exact arithmetic:
\* to each its part h[i] / sum * toAdd floored to hundredths, what is left of
\* toAdd to the first; all of toAdd to the first when the sum is 0
ExactReallocation(h, toAdd) ==
  LET sum == Total(h)
      share == [i \in 1..Len(h) |-> (h[i] * toAdd) \div sum]
  IN IF sum > 0
     THEN [i \in 1..Len(h) |->
             h[i] + share[i] + (IF i = 1 THEN toAdd - Total(share) ELSE 0)]
     ELSE [i \in 1..Len(h) |-> h[i] + (IF i = 1 THEN toAdd ELSE 0)]

\* C21: in the branch of the leave that Oracle removed, with available hours
\* that sum to more than 0, each candidate gets its proportional part of
\* originalDrmisHours floored to 2 decimals and the first also the remainder, so
\* that the hours sum to the previous sum plus originalDrmisHours; with
\* available hours that sum to 0 the first candidate gets all of it.
C21_ProportionalShares ==
  pc = "cats" =>
    \A k \in OracleRemovedCalls :
      LET call == prefillCalls[k]
          h == Available(call)
          after == call.residuals.hours
      IN Total(h) >= 0 =>
           /\ Len(after) = Len(h)
           /\ \A i \in 1..Len(h) :
                Hundredths(after[i]) = ExactReallocation(h, OriginalDrmisHours(call))[i]
           /\ Total([i \in 1..Len(h) |-> Hundredths(after[i])])
                = Total(h) + OriginalDrmisHours(call)

\* available hours 0.50 and 0.75 and 0.75 hours to hand out: the part of the
\* second is 0.45, its share is 0.44 ((0.75 / 1.25) * 0.75 * 100 is a little
\* under 45), and the first ends with 0.81 hours instead of 0.80
C21_ShareBelowFloor ==
  /\ pc = "cats"
  /\ \E k \in OracleRemovedCalls :
       /\ Available(prefillCalls[k]) = <<50, 75>>
       /\ OriginalDrmisHours(prefillCalls[k]) = 75
       /\ ExactReallocation(<<50, 75>>, 75) = <<80, 120>>
       /\ Hundredths(prefillCalls[k].residuals.hours[1]) = 81
       /\ Hundredths(prefillCalls[k].residuals.hours[2]) = 119
       /\ prefillCalls[k].filled
       /\ prefillCalls[k].newRow.cells[6] = Chars("0.81")

\* the hours of the data row of a call, in hundredths
LeaveHours(call) == parseFloatOrZero(trim(call.dataRow.cells[6]))

\* the calls that got as far as the default branch
DefaultCalls ==
  {k \in 1..Len(prefillCalls) :
     /\ prefillCalls[k].filtered # <<>>
     /\ ~prefillCalls[k].residuals.isOracleRemoved}

\* hours h after amount is taken from them in list order, each giving up the
\* smaller of its hours and what is still to take
RECURSIVE ExactSubtraction(_, _)
ExactSubtraction(h, amount) ==
  IF h = <<>> \/ amount <= 0 THEN h
  ELSE LET take == Min(Head(h), amount)
       IN <<Head(h) - take>> \o ExactSubtraction(Tail(h), amount - take)

\* C22: in the default branch the leave hours still to subtract (the hours of
\* the data row less the hours of supplementary rows already there, not below
\* 0, and 0 for a replaced row) are taken from the candidates in list order,
\* each giving up the smaller of its hours and the amount still to subtract; no
\* hours become negative, and a replaced row takes nothing. (The data row is
\* the last row of the table body when the call is made, so no supplementary
\* rows are there.)
C22_SubtractionInOrder ==
  pc = "cats" =>
    \A k \in DefaultCalls :
      LET call == prefillCalls[k]
          h == Available(call)
          after == call.residuals.hours
          amount == IF call.dataRow.dataset.replaced THEN 0
                    ELSE mathMax(0, LeaveHours(call) - 0)
      IN /\ Len(after) = Len(h)
         /\ Hundredths(call.residuals.amount) = amount
         /\ \A i \in 1..Len(h) :
              /\ Hundredths(after[i]) = ExactSubtraction(h, amount)[i]
              /\ h[i] >= 0 => ~fpLess(after[i], fpZero)
         /\ call.dataRow.dataset.replaced =>
              after = [i \in 1..Len(h) |-> fpOfHundredths(h[i])]

\* 8 hours of leave against work of 7.70 and 5.00 hours: the first gives up all
\* of its hours, the second 0.30, and the row is filled with the 4.70 left
C22_Witness ==
  /\ pc = "cats"
  /\ \E k \in DefaultCalls :
       /\ Available(prefillCalls[k]) = <<770, 500>>
       /\ ~prefillCalls[k].dataRow.dataset.replaced
       /\ LeaveHours(prefillCalls[k]) = 800
       /\ Hundredths(prefillCalls[k].residuals.hours[1]) = 0
       /\ prefillCalls[k].newRow.cells[6] = Chars("4.70")

\* the indexes of the data rows of the table, in order
DataRowIndexes ==
  SelectSeq([i \in 1..Len(catsTable) |-> i], LAMBDA i : catsTable[i].rowType = "data-row")

\* the entries of the lookup for the date and the employee of the k-th mismatch
EntriesOfMismatch(k) ==
  lookupGet(drmisLookup, <<toISODate(mismatches[k].Date), ToStr(mismatches[k].PersNo)>>)

\* the first residual of a call with hours above 0
FirstPositive(call) ==
  CHOOSE i \in 1..Len(call.residuals.hours) :
    /\ fpPositive(call.residuals.hours[i])
    /\ \A j \in 1..(i - 1) : ~fpPositive(call.residuals.hours[j])

\* C23: a call fills a supplementary row exactly when the lookup has entries for
\* the date and the employee of the data row, a candidate passes the filter and
\* a candidate is left with hours above 0; the row then has the work order, the
\* activity, the code and the hours of the first such candidate, hours above 0,
\* and no supplementary row is put in the table otherwise.
C23_PrefillOutcome ==
  pc = "cats" =>
    /\ Len(prefillCalls) = Len(mismatches)
    /\ Len(DataRowIndexes) = Len(mismatches)
    /\ \A k \in 1..Len(prefillCalls) :
         LET call == prefillCalls[k]
             next == catsTable[DataRowIndexes[k] + 1]
         IN /\ call.filled <=>
                 /\ EntriesOfMismatch(k) # <<>>
                 /\ call.filtered # <<>>
                 /\ \E i \in 1..Len(call.residuals.hours) :
                      fpPositive(call.residuals.hours[i])
            /\ call.filled =>
                 LET pick == call.candidates[call.filtered[FirstPositive(call)]]
                 IN /\ call.candidates = EntriesOfMismatch(k)
                    /\ next = call.newRow
                    /\ next.rowType = "editable-row"
                    /\ next.cells[3] = pick.recOrder
                    /\ next.cells[4] = trim(pick.act)
                    /\ next.cells[5] = pick.aatype
                    /\ next.cells[6]
                         = toFixed2(Hundredths(call.residuals.hours[FirstPositive(call)]))
                    /\ parseFloatOrZero(next.cells[6]) > 0
            /\ ~call.filled => next.rowType # "editable-row"

\* 8 hours of leave against work of 7.70 and 0.30 hours: 8 - 7.7 is a little
\* under 0.3, so the second candidate is left with 0.00000000000000017 hours,
\* which is above 0, and the row is filled with its work order and 0.00 hours
C23_FilledWithZeroHours ==
  /\ pc = "cats"
  /\ \E k \in DefaultCalls :
       /\ Available(prefillCalls[k]) = <<770, 30>>
       /\ LeaveHours(prefillCalls[k]) = 800
       /\ ExactSubtraction(<<770, 30>>, 800) = <<0, 0>>
       /\ prefillCalls[k].filled
       /\ catsTable[DataRowIndexes[k] + 1].rowType = "editable-row"
       /\ catsTable[DataRowIndexes[k] + 1].cells[3] = Chars("WO-2")
       /\ catsTable[DataRowIndexes[k] + 1].cells[6] = Chars("0.00")

\* the code of the data row of a call and its data-original-drmis
TargetCode(call) == trim(call.dataRow.cells[5])
OriginalDrmisCode(call) ==
  IF call.dataRow.dataset.originalDrmis = <<>> THEN <<>>
  ELSE trim(call.dataRow.dataset.originalDrmis[1])

\* C24: the code of a supplementary row that a call fills differs, digits
\* compared, from the code of the data row and, for a replaced data row, from
\* originalDrmisCode as well; for a data row that is not replaced the candidates
\* left out are those that match the code of the data row and no others,
\* whether they match originalDrmisCode or not.
C24_ExcludedCodes ==
  pc = "cats" =>
    \A k \in 1..Len(prefillCalls) :
      LET call == prefillCalls[k]
          code(i) == digitsOnly(call.candidates[i].aatype)
      IN /\ call.filled =>
              /\ digitsOnly(call.newRow.cells[5]) # digitsOnly(TargetCode(call))
              /\ call.dataRow.dataset.replaced =>
                   digitsOnly(call.newRow.cells[5]) # digitsOnly(OriginalDrmisCode(call))
         /\ (call.candidates # <<>> /\ ~call.dataRow.dataset.replaced) =>
              \A i \in 1..Len(call.candidates) :
                (\E j \in 1..Len(call.filtered) : call.filtered[j] = i)
                  <=> code(i) # digitsOnly(TargetCode(call))

\* a replaced data row (DRMIS leave 1110, Oracle leave 1120): the leave row of
\* the lookup, with hours above 0, matches originalDrmisCode and not the code of
\* the data row, and the row is filled from the work row behind it
C24_Witness ==
  /\ pc = "cats"
  /\ \E k \in 1..Len(prefillCalls) :
       /\ prefillCalls[k].dataRow.dataset.replaced
       /\ prefillCalls[k].filled
       /\ digitsOnly(prefillCalls[k].candidates[1].aatype)
            = digitsOnly(OriginalDrmisCode(prefillCalls[k]))
       /\ digitsOnly(prefillCalls[k].candidates[1].aatype)
            # digitsOnly(TargetCode(prefillCalls[k]))
       /\ prefillCalls[k].candidates[1].hours > 0
       /\ prefillCalls[k].filtered[1] = 2
       /\ prefillCalls[k].newRow.cells[3] = Chars("WO-1")

\* the calls for a data row that is not replaced, has originalDrmisHours above 0
\* and hours 0, with a candidate that passes the filter
RemovedLeaveCalls ==
  {k \in 1..Len(prefillCalls) :
     /\ ~prefillCalls[k].dataRow.dataset.replaced
     /\ OriginalDrmisHours(prefillCalls[k]) > 0
     /\ LeaveHours(prefillCalls[k]) = 0
     /\ prefillCalls[k].filtered # <<>>}

\* C29: for a leave that Oracle removed (data row not replaced, originalDrmisHours
\* above 0, hours 0) a call with a candidate that passes the filter always
\* fills a supplementary row: a candidate ends with hours above 0.
C29_RemovedLeaveAlwaysFilled ==
  pc = "cats" =>
    \A k \in RemovedLeaveCalls :
      /\ prefillCalls[k].residuals.isOracleRemoved
      /\ \E i \in 1..Len(prefillCalls[k].residuals.hours) :
           fpPositive(prefillCalls[k].residuals.hours[i])
      /\ prefillCalls[k].filled
      /\ catsTable[DataRowIndexes[k] + 1] = prefillCalls[k].newRow

\* a DRMIS leave of 0.75 hours that Oracle removed, and one work row of -5.00
\* hours for the day: the work row ends with -4.25 hours and nothing is filled
C29_NegativeCandidate ==
  /\ pc = "cats"
  /\ \E k \in RemovedLeaveCalls :
       /\ Available(prefillCalls[k]) = <<-500>>
       /\ OriginalDrmisHours(prefillCalls[k]) = 75
       /\ Hundredths(prefillCalls[k].residuals.hours[1]) = -425
       /\ ~prefillCalls[k].filled
       /\ catsTable[DataRowIndexes[k] + 1].rowType = "total-row"

\* the filled cells of a row, and 50 more when a cell holds a header keyword
HeaderScore(row) ==
  Cardinality({c \in 1..Len(row) : row[c].t # "null" /\ trim(ToStr(row[c])) # <<>>})
    + (IF \E c \in 1..Len(row) : \E k \in headerKeywords :
            row[c].t # "null" /\ includes(toLowerCase(trim(ToStr(row[c]))), k)
       THEN 50 ELSE 0)

\* the rows of a grid among which the header row is looked for
Scanned(grid) == 1..Min(30, Len(grid))

\* the table read from a grid with row idx as its header row
TableUnder(grid, idx) ==
  LET b == columnBounds(grid, idx)
      headers == sheetHeaders(grid, idx, b)
  IN [headers |-> headers, rows |-> sheetObjects(grid, idx + 1, headers, b)]

\* C25: the header row of sheetRowsToObjects is the row with the highest score
\* (filled cells, plus 50 with a header keyword in a cell) of the first
\* min(30, rowCount) rows, the one with the smallest index of those with that
\* score; no row behind the first 30 is the header row.
C25_HeaderRowChoice ==
  pc = "read" =>
    \E idx \in Scanned(sheetGrid) :
      /\ idx <= 30
      /\ \A j \in Scanned(sheetGrid) :
           HeaderScore(sheetGrid[j]) <= HeaderScore(sheetGrid[idx])
      /\ \A j \in 1..(idx - 1) : HeaderScore(sheetGrid[j]) < HeaderScore(sheetGrid[idx])
      /\ sheetTable = TableUnder(sheetGrid, idx)
      /\ \A other \in 31..Len(sheetGrid) :
           HeaderScore(sheetGrid[other]) > HeaderScore(sheetGrid[idx])
             => sheetTable # TableUnder(sheetGrid, other)

\* the first two rows have the highest score of the grid, 3, and the first of
\* them is the header row
C25_Witness ==
  /\ pc = "read"
  /\ Len(sheetGrid) >= 3
  /\ HeaderScore(sheetGrid[1]) = 3
  /\ HeaderScore(sheetGrid[2]) = 3
  /\ \A j \in 1..Len(sheetGrid) : HeaderScore(sheetGrid[j]) <= 3
  /\ sheetTable.headers = <<Chars("Employee"), Chars("Day"), Chars("Total")>>
  /\ Len(sheetTable.rows) >= 1

\* the rows of a file whose date normalizeDate reads, in order
DatedRows(headers, rows) ==
  SelectSeq(rows, LAMBDA r :
    normalizeDate(rowCell(r, headers, lookupKeys(headers).dateKey)) # <<>>)

\* all entries of a Map, key by key
RECURSIVE EntriesOf(_)
EntriesOf(map) ==
  IF map = <<>> THEN <<>> ELSE Head(map).entries \o EntriesOf(Tail(map))

\* C26: with a DRMIS file loaded, the lookup holds the entries of that file and
\* no others, whatever was loaded before: as many entries as the file has rows
\* with a date, each row of the file under its key, and nothing at all for a
\* file without rows.
C26_LookupOfLastLoad ==
  drmisRows # <<>> =>
    LET rows == DatedRows(drmisHeaders, drmisRows[1])
        k == lookupKeys(drmisHeaders)
        keyOf(r) == lookupMapKey(r, drmisHeaders, k,
                                 normalizeDate(rowCell(r, drmisHeaders, k.dateKey))[1])
    IN /\ Len(EntriesOf(drmisLookup)) = Len(rows)
       /\ \A i \in 1..Len(drmisLookup) : \A j \in 1..Len(drmisLookup) :
            drmisLookup[i].key = drmisLookup[j].key => i = j
       /\ \A i \in 1..Len(drmisLookup) :
            drmisLookup[i].entries
              = [e \in 1..Len(SelectSeq(rows, LAMBDA r : keyOf(r) = drmisLookup[i].key)) |->
                   lookupEntry(SelectSeq(rows, LAMBDA r : keyOf(r) = drmisLookup[i].key)[e],
                               drmisHeaders, k)]
       /\ drmisRows[1] = <<>> => drmisLookup = <<>>

\* a file of two rows for two days is loaded, and the lookup has one entry for
\* each of the two days
C26_Witness ==
  /\ drmisRows # <<>>
  /\ Len(drmisRows[1]) = 2
  /\ Len(drmisLookup) = 2
  /\ Len(EntriesOf(drmisLookup)) = 2
  /\ drmisLookup[1].key[1] # drmisLookup[2].key[1]

\* the code the lookup keeps for a cell of the A/A Type column
DetailCode(cell) ==
  IF ~Truthy(cell) \/ trim(ToStr(cell)) = <<>> \/ trim(ToStr(cell)) = <<"-">>
  THEN <<"0">> ELSE trim(ToStr(cell))

\* the text the lookup keeps for a cell of the work order or activity column
DetailText(cell) == IF Truthy(cell) THEN trim(ToStr(cell)) ELSE <<>>

\* C27: once the lookup is built, every row of the DRMIS file with a date that
\* normalizeDate reads, the rows extractDrmisData drops for their code included,
\* has an entry under the key of its date and its employee id as
\* extractDrmisData reads them, with the hours, the leave code ("0" for a blank
\* or a dash), the work order and the activity of the row.
C27_EntryOfEveryRow ==
  (drmisRows # <<>> /\ drmisMissing(drmisHeaders) = <<>>) =>
    /\ \A i \in 1..Len(drmisRows[1]) :
         LET r == drmisRows[1][i]
             d == normalizeDate(r.date)
         IN d # <<>> =>
              \E e \in {lookupGet(drmisLookup, keyFor(d[1], r.pers))[j] :
                          j \in 1..Len(lookupGet(drmisLookup, keyFor(d[1], r.pers)))} :
                /\ e.hours = NumberOrZero(r.hours)
                /\ e.aatype = DetailCode(r.atype)
                /\ e.recOrder = DetailText(r.recOrder)
                /\ e.act = DetailText(r.act)
    /\ \A i \in 1..Len(drmisExtracted) :
         lookupGet(drmisLookup, keyFor(drmisExtracted[i].Date, drmisExtracted[i].PersNo)) # <<>>

\* the hours are under the header HOURS: extractDrmisData reads the 8 hours of a
\* row that it drops for its code 3010 (and of the rows it keeps), and the entry
\* of the row in the lookup has 0 hours
C27_HoursLost ==
  /\ drmisRows # <<>>
  /\ drmisHeaders[3] = Chars("HOURS")
  /\ drmisMissing(drmisHeaders) = <<>>
  /\ pc = "done"
  /\ \E i \in 1..Len(drmisRows[1]) :
       LET r == drmisRows[1][i]
       IN /\ normalizeDate(r.date) # <<>>
          /\ drmisRecordOf(r, leaveCodeWhitelist) = <<>>
          /\ NumberOrZero(r.hours) = 800
          /\ \A j \in 1..Len(lookupGet(drmisLookup, keyFor(normalizeDate(r.date)[1], r.pers))) :
               lookupGet(drmisLookup, keyFor(normalizeDate(r.date)[1], r.pers))[j].hours = 0

\* the Oracle records of a date, as indexes of the expanded list
OracleRecordsOn(d) == {i \in 1..Len(oracleExtracted) : oracleExtracted[i].Date = d}

\* the merged rows of a date
MergedRowsOn(d) == {m \in 1..Len(merged) : merged[m].Date = d}

\* C28: of the Oracle records of one date, those made by the expansion of an
\* earlier record included, the last in the list gives its hours and its code
\* to one merged row of that date; no other merged row of the date has Oracle
\* hours or an Oracle code, and the hours of the records are not added up.
C28_LastOracleRecordWins ==
  pc = "done" =>
    \A i \in 1..Len(oracleExtracted) :
      LET d == oracleExtracted[i].Date
          last == oracleExtracted[Greatest(OracleRecordsOn(d))]
      IN \E m \in MergedRowsOn(d) :
           /\ merged[m].OracleHours = last.OracleHours
           /\ merged[m].OracleLeaveCode = last.OracleLeaveCode
           /\ \A other \in MergedRowsOn(d) \ {m} :
                /\ merged[other].OracleHours = 0
                /\ merged[other].OracleLeaveCode = <<>>

\* a record of 20 hours is expanded onto the date of a later record of the file
\* that has no hours: the date has two Oracle records, of 8 hours and of 0, and
\* its merged row has the hours and the code of the second
C28_Witness ==
  /\ pc = "done"
  /\ Len(oracleExtracted) > Len(oracleOut)
  /\ \E i \in 1..Len(oracleExtracted) :
       LET d == oracleExtracted[i].Date
           last == oracleExtracted[Greatest(OracleRecordsOn(d))]
       IN /\ Cardinality(OracleRecordsOn(d)) = 2
          /\ Cardinality({o \in 1..Len(oracleOut) : oracleOut[o].Date = d}) = 1
          /\ Least(OracleRecordsOn(d)) = i
          /\ oracleExtracted[i].OracleHours = 800
          /\ last.OracleHours = 0
          /\ \E m \in MergedRowsOn(d) :
               /\ merged[m].OracleHours = last.OracleHours
               /\ merged[m].OracleLeaveCode = last.OracleLeaveCode

\* the key prefillEditableRow makes from the date and the employee id that a
\* data row shows
DisplayedKey(row) ==
  <<toISODate(parseDisplayDate(trim(row.cells[2])).day), trim(row.cells[1])>>

\* the key buildDrmisLookup stores the row of a DRMIS record under
StoredKey(rec) == <<toISODate(rec.Date), trimmedOrEmpty(rec.PersNo)>>

\* the DRMIS records that the k-th mismatch comes from
RecordsOfMismatch(k) ==
  {i \in 1..Len(drmisExtracted) :
     /\ drmisExtracted[i].Date = mismatches[k].Date
     /\ mergedPers(drmisExtracted[i].PersNo, defaultPersOf(drmisExtracted))
          = mismatches[k].PersNo}

\* C30: for a data row made from a mismatch that comes from a DRMIS record, the
\* key prefillEditableRow makes from the date and the employee id the row shows
\* is the key buildDrmisLookup stored the entries of that record under: the
\* date shown reads back as the same date, for every date, and the employee id
\* is the same after the numeric conversions of reconcileData and
\* generateCatsEdits.
C30_DisplayedKeyIsStoredKey ==
  pc = "cats" =>
    /\ \A d \in 0..364 :
         parseDisplayDate(Chars(formattedDateForDisplay(d))) = [kind |-> "date", day |-> d]
    /\ \A k \in 1..Len(prefillCalls) : \A i \in RecordsOfMismatch(k) :
         /\ DisplayedKey(prefillCalls[k].dataRow) = StoredKey(drmisExtracted[i])
         /\ lookupGet(drmisLookup, DisplayedKey(prefillCalls[k].dataRow)) # <<>>
         /\ prefillCalls[k].candidates # <<>>

\* the DRMIS row of employee '07' (a text cell) makes a mismatch; its entry is
\* stored under '07', the data row shows 7, and prefillEditableRow finds no
\* candidates under the key of the date and '7'
C30_LeadingZeroId ==
  /\ pc = "cats"
  /\ \E k \in 1..Len(prefillCalls) : \E i \in RecordsOfMismatch(k) :
       /\ drmisExtracted[i].PersNo = Str(p07)
       /\ StoredKey(drmisExtracted[i])[2] = p07
       /\ lookupGet(drmisLookup, StoredKey(drmisExtracted[i])) # <<>>
       /\ DisplayedKey(prefillCalls[k].dataRow)[1] = StoredKey(drmisExtracted[i])[1]
       /\ DisplayedKey(prefillCalls[k].dataRow)[2] = p7
       /\ prefillCalls[k].candidates = <<>>
       /\ ~prefillCalls[k].filled

====
